---- MODULE Spec2Model ----
(***************************************************************************)
(* Price-history accumulation of the portfolio / watchlist pages:          *)
(* the quote refresh cycle (refreshQuotes), the daily price log            *)
(* (logTodayFromQuotes, alreadyLoggedToday), the series derived from the   *)
(* log for the charts (toSeriesFromLog, filterByRange, totalSeries,        *)
(* normalizedSeries), and the dividends page (addMonths, actualMonthly,    *)
(* forecastMonthly).                                                       *)
(*                                                                         *)
(* Time is counted in minutes since 1970-01-01T00:00 local time (the code  *)
(* counts milliseconds; every duration the code uses is a whole number of  *)
(* minutes).  A date key "YYYY-MM-DD" is the triple <<yyyy, mm, dd>>.      *)
(***************************************************************************)
EXTENDS Integers, Sequences, FiniteSets, TLC

VARIABLES
    now,            \* Date.now(), in minutes
    store,          \* localStorage: portfolio, portfolio_quotes, portfolio_quotes_ts, price_log
    items,          \* useState<Item[] | null>
    quotes,         \* useState<Record<string, Quote | null>>
    quotesTs,       \* useState<number>
    loadingPrices,  \* useState<boolean>
    priceLog,       \* useState<PriceLog | null>
    cycles,         \* the refreshQuotes calls that are suspended at an await
    effectsPending, \* which of the two [itemsLoaded, priceLog !== null, length] effects has still to run
    nextId,         \* the id the next call of uid() returns
    ops,            \* the number of user actions and clock changes so far
    autoDay,        \* history: the day on which the daily-logging effect last started a refresh
    ev,             \* history: the handler that ran last and what it found
    range,          \* useState<RangePreset>
    chartMode,      \* useState<"total" | "normalized">, on the watchlist <"overlay" | "normalized">
    portfolio,      \* dividends page: useState<PortfolioItem[] | null>
    events,         \* dividends page: useState<DividendEvent[] | null>
    settings,       \* dividends page: useState<Record<string, DividendSetting> | null>
    divStore,       \* localStorage: dividend_events, dividend_settings
    calDate,        \* the Date handed to addMonths
    calMonths,      \* the month count handed to addMonths
    calOut,         \* the Dates addMonths returned, in call order
    tab2            \* the portfolio page open in a second tab: its items, quotes, quotesTs, priceLog

pageVars == <<now, store, items, quotes, quotesTs, loadingPrices, priceLog, cycles, effectsPending, nextId, ops, autoDay, ev>>
chartVars == <<range, chartMode>>
divVars == <<portfolio, events, settings, divStore>>
calVars == <<calDate, calMonths, calOut>>

tabVars == <<tab2>>

vars == <<pageVars, chartVars, divVars, calVars, tabVars>>

----------------------------------------------------------------------------
\* Bounds of the model

Symbols == {"AAPL", "MSFT"}
MaxItems == 2
MaxPrice == 1
MaxCycles == 2
MaxElapsed == 3
MaxDays == 1
MaxOps == 1
Steps == {3}
ShareInputs == {0, 1}
EditInputs == {-1, 2}

----------------------------------------------------------------------------
\* Values

Prices == 0 .. MaxPrice
NoPrice == -1

Absent == [tag |-> "absent", c |-> NoPrice]
NullQuote == [tag |-> "null", c |-> NoPrice]
Quote(p) == [tag |-> "quote", c |-> p]
FetchOutcomes == {NullQuote} \cup {Quote(p) : p \in Prices \cup {NoPrice}}

MsPerUnit == 60 * 1000
QUOTE_CACHE_MS == (5 * 60 * 1000) \div MsPerUnit
DAY == 86400000 \div MsPerUnit

----------------------------------------------------------------------------
\* Calendar (the Date object in local time)

DaysFromCivil(k) ==
    LET y   == IF k[2] <= 2 THEN k[1] - 1 ELSE k[1]
        era == y \div 400
        yoe == y - era * 400
        mp  == IF k[2] > 2 THEN k[2] - 3 ELSE k[2] + 9
        doy == (153 * mp + 2) \div 5 + k[3] - 1
        doe == yoe * 365 + yoe \div 4 - yoe \div 100 + doy
    IN  era * 146097 + doe - 719468

CivilFromDays(n) ==
    LET z   == n + 719468
        era == z \div 146097
        doe == z - era * 146097
        yoe == (doe - doe \div 1460 + doe \div 36524 - doe \div 146096) \div 365
        doy == doe - (365 * yoe + yoe \div 4 - yoe \div 100)
        mp  == (5 * doy + 2) \div 153
        d   == doy - (153 * mp + 2) \div 5 + 1
        m   == IF mp < 10 THEN mp + 3 ELSE mp - 9
        y   == yoe + era * 400
    IN  <<IF m <= 2 THEN y + 1 ELSE y, m, d>>

dayKey(t) == CivilFromDays(t \div DAY)

ParseMidnight(k) == DaysFromCivil(k) * DAY

StartNow == DaysFromCivil(<<2024, 2, 29>>) * DAY + 9 * 60

\* A Date at local midnight is the number of its day (days since 1970-01-01).
getFullYear(d) == CivilFromDays(d)[1]
getMonth(d) == CivilFromDays(d)[2] - 1
getDate(d) == CivilFromDays(d)[3]

\* new Date(s + "T00:00:00") for a date string s = "YYYY-MM-DD"
parseYmd(k) == DaysFromCivil(k)

\* ymd(d): the date string of a Date
ymd(d) == CivilFromDays(d)

\* new Date(year, monthIndex, day)
NewDate(y, mi, day) == DaysFromCivil(<<y, mi + 1, day>>)

\* x.setMonth(mi): the month index may lie outside 0 .. 11 and then moves the
\* year; a day the month lacks runs over into the following month
SetMonth(d, mi) ==
    DaysFromCivil(<<getFullYear(d) + (mi \div 12), (mi % 12) + 1, 1>>) + getDate(d) - 1

SetDate_one(d, n) == DaysFromCivil(<<getFullYear(d), getMonth(d) + 1, 1>>)

\* x.setDate(n): day n of the month of x, n = 0 being the last day of the month before
SetDate(d, n) == DaysFromCivil(<<getFullYear(d), getMonth(d) + 1, 1>>) + n - 1

\* a date on the last day of its month moves to the last day of the target month
addMonths_monthend(d, months) ==
    LET day == getDate(d)
        x   == SetMonth(d, getMonth(d) + months)
        c   == IF getDate(x) # day THEN SetDate(x, 0) ELSE x
        f   == c - getDate(c) + 1
    IN  IF getDate(d + 1) = 1 THEN SetMonth(f, getMonth(f) + 1) - 1 ELSE c

addMonths_spill(d, months) == SetMonth(d, getMonth(d) + months)

addMonths(d, months) ==
    LET day == getDate(d)
        x   == SetMonth(d, getMonth(d) + months)
    IN  IF getDate(x) # day THEN SetDate(x, 0) ELSE x

----------------------------------------------------------------------------
\* The price log: symbol -> object of date key -> price.  An object is the
\* sequence of its own properties in insertion order.

EmptyLog == [s \in Symbols |-> <<>>]

HasKey(obj, k) == \E i \in 1 .. Len(obj) : obj[i].k = k

Get(obj, k) == obj[CHOOSE i \in 1 .. Len(obj) : obj[i].k = k].v

ObjSet_append(obj, k, v) == Append(obj, [k |-> k, v |-> v])

ObjSet(obj, k, v) ==
    IF HasKey(obj, k)
    THEN [i \in 1 .. Len(obj) |-> IF obj[i].k = k THEN [k |-> k, v |-> v] ELSE obj[i]]
    ELSE Append(obj, [k |-> k, v |-> v])

alreadyLoggedToday_all(log, symbols, t) ==
    \A i \in 1 .. Len(symbols) : HasKey(log[symbols[i]], dayKey(t))

alreadyLoggedToday(log, symbols, t) ==
    \E i \in 1 .. Len(symbols) : HasKey(log[symbols[i]], dayKey(t))

RECURSIVE LogLoop_fresh(_, _, _, _, _)
LogLoop_fresh(log, syms, q, k, i) ==
    IF i > Len(syms) THEN log
    ELSE LET p == q[syms[i]].c
         IN  IF p = NoPrice
             THEN LogLoop_fresh(log, syms, q, k, i + 1)
             ELSE LogLoop_fresh([log EXCEPT ![syms[i]] = <<[k |-> k, v |-> p]>>], syms, q, k, i + 1)

RECURSIVE LogLoop_nocheck(_, _, _, _, _)
LogLoop_nocheck(log, syms, q, k, i) ==
    IF i > Len(syms) THEN log
    ELSE LogLoop_nocheck([log EXCEPT ![syms[i]] = ObjSet(@, k, q[syms[i]].c)], syms, q, k, i + 1)

RECURSIVE LogLoop(_, _, _, _, _)
LogLoop(log, syms, q, k, i) ==
    IF i > Len(syms) THEN log
    ELSE LET p == q[syms[i]].c
         IN  IF p = NoPrice
             THEN LogLoop(log, syms, q, k, i + 1)
             ELSE LogLoop([log EXCEPT ![syms[i]] = ObjSet(@, k, p)], syms, q, k, i + 1)

logTodayFromQuotes_gated(prev, syms, q, t) ==
    IF prev.null \/ alreadyLoggedToday(prev.v, syms, t) THEN prev
    ELSE [null |-> FALSE, v |-> LogLoop(prev.v, syms, q, dayKey(t), 1)]

logTodayFromQuotes(prev, syms, q, t) ==
    IF prev.null THEN prev
    ELSE [null |-> FALSE, v |-> LogLoop(prev.v, syms, q, dayKey(t), 1)]

----------------------------------------------------------------------------
\* Series derived from the log: a sequence of points <<timestamp, price>>

\* Array.prototype.sort((a, b) => a[0] - b[0]): stable, ascending by timestamp
InsertPoint(sorted, p) ==
    LET n == Cardinality({i \in 1 .. Len(sorted) : sorted[i][1] <= p[1]})
    IN  SubSeq(sorted, 1, n) \o <<p>> \o SubSeq(sorted, n + 1, Len(sorted))

RECURSIVE SortByTime(_)
SortByTime(series) ==
    IF Len(series) = 0 THEN <<>>
    ELSE InsertPoint(SortByTime(SubSeq(series, 1, Len(series) - 1)), series[Len(series)])

\* Object.entries(byDay).map(([k, v]) => [new Date(k + "T00:00:00").getTime(), v])
EntriesToPoints(byDay) == [i \in 1 .. Len(byDay) |-> <<ParseMidnight(byDay[i].k), byDay[i].v>>]

toSeriesFromLog_unsorted(log, symbol) == EntriesToPoints(log[symbol])

toSeriesFromLog(log, symbol) == SortByTime(EntriesToPoints(log[symbol]))

Ranges == {"30D", "90D", "180D", "365D", "ALL"}

RangeDays(r) == IF r = "30D" THEN 30 ELSE IF r = "90D" THEN 90 ELSE IF r = "180D" THEN 180 ELSE 365

filterByRange_strict(series, r, t) ==
    IF r = "ALL" THEN series
    ELSE LET cutoff == t - RangeDays(r) * DAY
         IN  SelectSeq(series, LAMBDA p : p[1] > cutoff)

\* t is Date.now() at the call
filterByRange(series, r, t) ==
    IF r = "ALL" THEN series
    ELSE LET cutoff == t - RangeDays(r) * DAY
         IN  SelectSeq(series, LAMBDA p : p[1] >= cutoff)

\* out[it.symbol] for every holding; seriesBySymbol[s] ?? [] for the other symbols
SeriesOf(list, log, r, t) ==
    [s \in Symbols |->
        IF \E i \in 1 .. Len(list) : list[i].symbol = s
        THEN filterByRange(toSeriesFromLog(log, s), r, t)
        ELSE <<>>]

\* Array.from(allTimes).sort((a, b) => a - b)
RECURSIVE SortTimes(_)
SortTimes(S) ==
    IF S = {} THEN <<>>
    ELSE LET m == CHOOSE x \in S : \A y \in S : x <= y
         IN  <<m>> \o SortTimes(S \ {m})

AllTimes(list, sbs) ==
    UNION {{sbs[list[i].symbol][j][1] : j \in 1 .. Len(sbs[list[i].symbol])} : i \in 1 .. Len(list)}

\* new Map(series).get(t): the value of the last point at t, undefined (NoPrice) if none
MapGet(series, t) ==
    LET at == {j \in 1 .. Len(series) : series[j][1] = t}
    IN  IF at = {} THEN NoPrice
        ELSE series[CHOOSE j \in at : \A j2 \in at : j2 <= j][2]

MapGet_carry(series, t) ==
    LET at == {j \in 1 .. Len(series) : series[j][1] <= t}
    IN  IF at = {} THEN NoPrice
        ELSE series[CHOOSE j \in at : \A j2 \in at : j2 <= j][2]

\* for (const it of safeItems) { p = maps[it.symbol].get(t); if (p == null) continue; total += p * it.shares }
RECURSIVE TotalAt_carry(_, _, _, _)
TotalAt_carry(list, sbs, t, i) ==
    IF i > Len(list) THEN 0
    ELSE LET p == MapGet_carry(sbs[list[i].symbol], t)
         IN  (IF p = NoPrice THEN 0 ELSE p * list[i].shares) + TotalAt_carry(list, sbs, t, i + 1)

\* a symbol counted once, with the shares of its first holding
RECURSIVE TotalAt_once(_, _, _, _)
TotalAt_once(list, sbs, t, i) ==
    IF i > Len(list) THEN 0
    ELSE LET p == MapGet(sbs[list[i].symbol], t)
         IN  (IF p = NoPrice \/ \E i0 \in 1 .. i - 1 : list[i0].symbol = list[i].symbol
              THEN 0 ELSE p * list[i].shares)
             + TotalAt_once(list, sbs, t, i + 1)

RECURSIVE TotalAt(_, _, _, _)
TotalAt(list, sbs, t, i) ==
    IF i > Len(list) THEN 0
    ELSE LET p == MapGet(sbs[list[i].symbol], t)
         IN  (IF p = NoPrice THEN 0 ELSE p * list[i].shares) + TotalAt(list, sbs, t, i + 1)

TotalSeriesOf(list, sbs) ==
    LET times == SortTimes(AllTimes(list, sbs))
    IN  [j \in 1 .. Len(times) |-> <<times[j], TotalAt(list, sbs, times[j], 1)>>]

\* A quotient n / d of two numbers, d # 0, kept exact as the reduced fraction <<n', d'>>
RECURSIVE GCD(_, _)
GCD(a, b) == IF b = 0 THEN a ELSE GCD(b, a % b)

Frac(n, d) == <<n \div GCD(n, d), d \div GCD(n, d)>>

\* arr.map(([t, v]) => [t, (v / first) * 100])
Normalize(arr) == [i \in 1 .. Len(arr) |-> <<arr[i][1], Frac(arr[i][2] * 100, arr[1][2])>>]

\* the null that .filter(Boolean) drops
NoSeries == [name |-> "", data |-> <<>>]

NormalizedEntry_single(it, sbs) ==
    LET arr == sbs[it.symbol]
    IN  IF Len(arr) < 1 THEN NoSeries
        ELSE IF arr[1][2] = 0 THEN NoSeries
        ELSE [name |-> it.symbol, data |-> Normalize(arr)]

NormalizedEntry(it, sbs) ==
    LET arr == sbs[it.symbol]
    IN  IF Len(arr) < 2 THEN NoSeries
        ELSE IF arr[1][2] = 0 THEN NoSeries
        ELSE [name |-> it.symbol, data |-> Normalize(arr)]

NormalizedSeriesOf(list, sbs) ==
    SelectSeq([i \in 1 .. Len(list) |-> NormalizedEntry(list[i], sbs)], LAMBDA e : e # NoSeries)

OverlayEntry(it, sbs) ==
    LET arr == sbs[it.symbol]
    IN  IF Len(arr) < 2 THEN NoSeries ELSE [name |-> it.symbol, data |-> arr]

OverlaySeriesOf(list, sbs) ==
    SelectSeq([i \in 1 .. Len(list) |-> OverlayEntry(list[i], sbs)], LAMBDA e : e # NoSeries)

----------------------------------------------------------------------------
\* Persisted blobs (localStorage.getItem / setItem with JSON text)

NoBlob(d) == [tag |-> "none", val |-> d]
Json(v) == [tag |-> "json", val |-> v]
\* a stored string that JSON.parse rejects (d is only there to give the record its shape)
Malformed(d) == [tag |-> "bad", val |-> d]

Item(id, s, sh) == [id |-> id, symbol |-> s, shares |-> sh]

Entry(k, v) == [k |-> k, v |-> v]

Yesterday == dayKey(StartNow - DAY)
DayBefore == dayKey(StartNow - 2 * DAY)

InitStores ==
    { \* first use: nothing stored
      [portfolio |-> NoBlob(<<>>), quotes |-> NoBlob([s \in Symbols |-> Absent]),
       ts |-> NoBlob(0), log |-> NoBlob(EmptyLog)],
      \* one holding, no quote cache, a log written on two earlier days; the entry of
      \* the later day was inserted first (the local date went back between the two
      \* writes, as it does when the device changes time zone)
      [portfolio |-> Json(<<Item(1, "AAPL", 1)>>), quotes |-> NoBlob([s \in Symbols |-> Absent]),
       ts |-> NoBlob(0),
       log |-> Json([EmptyLog EXCEPT !["AAPL"] = <<Entry(Yesterday, 1), Entry(DayBefore, 0)>>])],
      \* one holding, already logged today, quote cache two minutes old
      [portfolio |-> Json(<<Item(1, "AAPL", 1)>>),
       quotes |-> Json([s \in Symbols |-> IF s = "AAPL" THEN Quote(0) ELSE Absent]),
       ts |-> Json(StartNow - 2),
       log |-> Json([EmptyLog EXCEPT !["AAPL"] = <<Entry(dayKey(StartNow), 0)>>])] }

----------------------------------------------------------------------------
\* Derived values of a render

itemsLoaded == ~items.null
safeItems == items.v
safeLog == priceLog.v
ready == itemsLoaded /\ ~priceLog.null

SymbolsOf(list) == [i \in 1 .. Len(list) |-> list[i].symbol]

\* The chart memos, as a render at time `now` computes them
seriesBySymbol == SeriesOf(safeItems, safeLog, range, now)
totalSeries == TotalSeriesOf(safeItems, seriesBySymbol)
normalizedSeries == NormalizedSeriesOf(safeItems, seriesBySymbol)
overlaySeries == OverlaySeriesOf(safeItems, seriesBySymbol)

hasEnoughHistory_any ==
    IF chartMode = "total" THEN Len(totalSeries) >= 1
    ELSE IF chartMode = "overlay" THEN \E i \in 1 .. Len(overlaySeries) : Len(overlaySeries[i].data) >= 2
    ELSE \E i \in 1 .. Len(normalizedSeries) : Len(normalizedSeries[i].data) >= 2

hasEnoughHistory ==
    IF chartMode = "total" THEN Len(totalSeries) >= 2
    ELSE IF chartMode = "overlay" THEN \E i \in 1 .. Len(overlaySeries) : Len(overlaySeries[i].data) >= 2
    ELSE \E i \in 1 .. Len(normalizedSeries) : Len(normalizedSeries[i].data) >= 2

\* What the chart box shows: "loading", "insufficient", or the chart of the mode
Chart ==
    IF ~ready THEN "loading"
    ELSE IF ~hasEnoughHistory THEN "insufficient"
    ELSE chartMode

\* The lines of the chart (option.series[...].data)
ChartLines ==
    IF chartMode = "total" THEN <<totalSeries>>
    ELSE IF chartMode = "overlay" THEN [i \in 1 .. Len(overlaySeries) |-> overlaySeries[i].data]
    ELSE [i \in 1 .. Len(normalizedSeries) |-> normalizedSeries[i].data]

FirstId == 3

Ev(op) == [op |-> op, force |-> FALSE, started |-> FALSE, n |-> 0, r |-> Absent,
           had |-> FALSE, over |-> FALSE, wasQuoted |-> FALSE]

\* No second tab is open
NoTab ==
    [items |-> [null |-> TRUE, v |-> <<>>], priceLog |-> [null |-> TRUE, v |-> EmptyLog],
     quotes |-> [s \in Symbols |-> Absent], quotesTs |-> 0, n |-> 0]
TabIdle == tab2 = NoTab

\* The charts before the user touches the range or the mode
ChartIdle == range = "365D" /\ chartMode = "total"

\* The dividends page is not open
DivIdle ==
    /\ portfolio = [null |-> TRUE, v |-> <<>>]
    /\ events = [null |-> TRUE, v |-> <<>>]
    /\ settings = [null |-> TRUE, v |-> <<>>]
    /\ divStore = [events |-> NoBlob(<<>>), settings |-> NoBlob(<<>>)]

\* addMonths has not been called
CalIdle == calDate = <<1970, 1, 1>> /\ calMonths = 0 /\ calOut = <<>>

Init ==
    /\ now = StartNow
    /\ store \in InitStores
    /\ items = [null |-> TRUE, v |-> <<>>]
    /\ quotes = [s \in Symbols |-> Absent]
    /\ quotesTs = 0
    /\ loadingPrices = FALSE
    /\ priceLog = [null |-> TRUE, v |-> EmptyLog]
    /\ cycles = <<>>
    /\ effectsPending = "mount"
    /\ nextId = FirstId
    /\ ops = 0
    /\ autoDay = <<0, 0, 0>>
    /\ ev = Ev("init")
    /\ ChartIdle /\ DivIdle /\ CalIdle /\ TabIdle

----------------------------------------------------------------------------
\* refreshQuotes, up to its first await

stale_any_age(ts, t) == ts = 0 \/ t - ts > 0

stale(ts, t) == ts = 0 \/ t - ts > QUOTE_CACHE_MS

RefreshProceeds(list, ts, t, force) ==
    /\ Len(list) # 0
    /\ force \/ stale(ts, t)

NewCycle(force) ==
    [force |-> force, syms |-> SymbolsOf(safeItems), i |-> 1,
     next |-> [s \in Symbols |-> Absent], res |-> <<>>, logLoaded |-> ~priceLog.null]

refreshQuotes(force) ==
    IF itemsLoaded /\ RefreshProceeds(safeItems, quotesTs, now, force)
    THEN /\ loadingPrices' = TRUE
         /\ cycles' = Append(cycles, NewCycle(force))
    ELSE UNCHANGED <<loadingPrices, cycles>>

\* The number of cycles the two effects start once the holdings are `list`
EffectStarts(list, log, ts, t) ==
    IF Len(list) = 0 THEN 0
    ELSE (IF stale(ts, t) THEN 1 ELSE 0)
         + (IF alreadyLoggedToday(log, SymbolsOf(list), t) THEN 0 ELSE 1)

----------------------------------------------------------------------------
\* Mount: the load effects, and the save effects of the render that follows

LoadItems(b) == IF b.tag = "json" THEN b.val ELSE <<>>
loadPriceLog(b) == IF b.tag = "json" THEN b.val ELSE EmptyLog
\* if (rawTs) setQuotesTs(Number(rawTs) || 0)
LoadTs(b, ts) == IF b.tag = "none" THEN ts ELSE IF b.tag = "json" THEN b.val ELSE 0

Mount ==
    /\ effectsPending = "mount"
    /\ store.quotes.tag # "bad"
    /\ items' = [null |-> FALSE, v |-> LoadItems(store.portfolio)]
    /\ quotes' = IF store.quotes.tag = "none" THEN quotes ELSE store.quotes.val
    /\ quotesTs' = LoadTs(store.ts, quotesTs)
    /\ priceLog' = [null |-> FALSE, v |-> loadPriceLog(store.log)]
    /\ store' = [portfolio |-> Json(items'.v), quotes |-> Json(quotes'),
                 ts |-> Json(quotesTs'), log |-> Json(priceLog'.v)]
    /\ effectsPending' = "auto"
    /\ ev' = Ev("mount")
    /\ UNCHANGED <<now, loadingPrices, cycles, nextId, ops, autoDay>>
    /\ UNCHANGED <<chartVars, divVars, calVars, tabVars>>

\* Auto refresh quotes when items change (only after log loaded)
EffAuto ==
    /\ effectsPending = "auto"
    /\ IF itemsLoaded /\ ~priceLog.null /\ Len(safeItems) # 0
       THEN refreshQuotes(FALSE)
       ELSE UNCHANGED <<loadingPrices, cycles>>
    /\ effectsPending' = "daily"
    /\ ev' = [Ev("effAuto") EXCEPT !.started = Len(cycles') > Len(cycles)]
    /\ UNCHANGED <<now, store, items, quotes, quotesTs, priceLog, nextId, ops, autoDay>>
    /\ UNCHANGED <<chartVars, divVars, calVars, tabVars>>

\* Automatic daily logging (once/day)
EffDaily ==
    /\ effectsPending = "daily"
    /\ IF /\ itemsLoaded /\ ~priceLog.null /\ Len(safeItems) # 0
          /\ ~alreadyLoggedToday(safeLog, SymbolsOf(safeItems), now)
       THEN refreshQuotes(TRUE)
       ELSE UNCHANGED <<loadingPrices, cycles>>
    /\ effectsPending' = "none"
    /\ ev' = [Ev("effDaily") EXCEPT !.force = TRUE, !.started = Len(cycles') > Len(cycles)]
    /\ autoDay' = IF Len(cycles') > Len(cycles) THEN dayKey(now) ELSE autoDay
    /\ UNCHANGED <<now, store, items, quotes, quotesTs, priceLog, nextId, ops>>
    /\ UNCHANGED <<chartVars, divVars, calVars, tabVars>>

----------------------------------------------------------------------------
\* User handlers

\* the save keeps what another session stored meanwhile
SetItems_merge(list) ==
    /\ items' = [null |-> FALSE, v |-> list]
    /\ store' = [store EXCEPT !.portfolio =
                    Json(list \o SelectSeq(LoadItems(store.portfolio),
                                           LAMBDA x : \A i \in 1 .. Len(list) : list[i].id # x.id))]
    /\ effectsPending' = IF Len(list) # Len(safeItems) THEN "auto" ELSE effectsPending

SetItems(list) ==
    /\ items' = [null |-> FALSE, v |-> list]
    /\ store' = [store EXCEPT !.portfolio = Json(list)]
    /\ effectsPending' = IF Len(list) # Len(safeItems) THEN "auto" ELSE effectsPending

\* Number() of a field that is no number, and of one too large for a double.
\* Both lie above every number the model uses: as in the code, NaN <= 0,
\* NaN < 0, Infinity <= 0 and Infinity < 0 are all false.
Infinity == 1000000
NaN == 1000001

isFinite_any(x) == TRUE

isFinite(x) == x # NaN /\ x # Infinity

\* add(): s is the trimmed, upper-cased symbol ("" when blank), sh the parsed shares
add(id, s, sh) ==
    /\ effectsPending = "none"
    /\ itemsLoaded
    /\ id = nextId
    /\ IF s = "" \/ ~isFinite(sh) \/ sh <= 0
       THEN UNCHANGED <<items, store, effectsPending, nextId>>
       ELSE /\ Len(safeItems) < MaxItems
            /\ nextId' = nextId + 1
            /\ Len(cycles) + EffectStarts(<<Item(id, s, sh)>> \o safeItems, safeLog, quotesTs, now) <= MaxCycles
            /\ SetItems(<<Item(id, s, sh)>> \o safeItems)
    /\ ev' = Ev("add")
    /\ UNCHANGED <<now, quotes, quotesTs, loadingPrices, priceLog, cycles>>
    /\ UNCHANGED <<chartVars, divVars, calVars, tabVars>>
    /\ ops < MaxOps
    /\ UNCHANGED autoDay
    /\ ops' = ops + 1

del(id) ==
    /\ effectsPending = "none"
    /\ itemsLoaded
    /\ \E i \in 1 .. Len(safeItems) : safeItems[i].id = id
    /\ LET list == SelectSeq(safeItems, LAMBDA x : x.id # id)
       IN  /\ Len(cycles) + EffectStarts(list, safeLog, quotesTs, now) <= MaxCycles
           /\ SetItems(list)
    /\ ev' = Ev("del")
    /\ UNCHANGED <<now, quotes, quotesTs, loadingPrices, priceLog, cycles, nextId>>
    /\ UNCHANGED <<chartVars, divVars, calVars, tabVars>>
    /\ ops < MaxOps
    /\ UNCHANGED autoDay
    /\ ops' = ops + 1

\* shares onChange
editShares(id, v) ==
    /\ effectsPending = "none"
    /\ itemsLoaded
    /\ \E i \in 1 .. Len(safeItems) : safeItems[i].id = id
    /\ IF ~isFinite(v) \/ v < 0
       THEN UNCHANGED <<items, store, effectsPending>>
       ELSE SetItems([i \in 1 .. Len(safeItems) |->
                        IF safeItems[i].id = id THEN [safeItems[i] EXCEPT !.shares = v]
                        ELSE safeItems[i]])
    /\ ev' = Ev("edit")
    /\ UNCHANGED <<now, quotes, quotesTs, loadingPrices, priceLog, cycles, nextId>>
    /\ UNCHANGED <<chartVars, divVars, calVars, tabVars>>
    /\ ops < MaxOps
    /\ UNCHANGED autoDay
    /\ ops' = ops + 1

\* the "Refresh prices (logs today)" button
ClickRefresh ==
    /\ effectsPending = "none"
    /\ ready /\ ~loadingPrices /\ Len(safeItems) # 0
    /\ Len(cycles) < MaxCycles
    /\ refreshQuotes(TRUE)
    /\ ev' = [Ev("click") EXCEPT !.force = TRUE, !.started = TRUE]
    /\ UNCHANGED <<now, store, items, quotes, quotesTs, priceLog, effectsPending, nextId>>
    /\ UNCHANGED <<chartVars, divVars, calVars, tabVars>>
    /\ ops < MaxOps
    /\ UNCHANGED autoDay
    /\ ops' = ops + 1

\* reset price history
Reset ==
    /\ effectsPending = "none"
    /\ ~priceLog.null
    /\ priceLog' = [null |-> FALSE, v |-> EmptyLog]
    /\ store' = [store EXCEPT !.log = Json(EmptyLog)]
    /\ ev' = Ev("reset")
    /\ UNCHANGED <<now, items, quotes, quotesTs, loadingPrices, cycles, effectsPending, nextId>>
    /\ UNCHANGED <<chartVars, divVars, calVars, tabVars>>
    /\ ops < MaxOps
    /\ UNCHANGED autoDay
    /\ ops' = ops + 1

----------------------------------------------------------------------------
\* refreshQuotes, from the await of one fetchQuote to the next await or to the end

\* try { next[it.symbol] = await fetchQuote(it.symbol) } catch { next[it.symbol] = null }
TryFetch_stale(next, sym, r) == IF r = NullQuote THEN next ELSE [next EXCEPT ![sym] = r]

TryFetch(next, sym, r) == [next EXCEPT ![sym] = r]

\* the for loop over safeItems has no holding left
LastFetch_first(c) == TRUE

LastFetch(c) == c.i >= Len(c.syms)

\* the call that returns ends every call in flight
RemoveAt_all(seq, i) == <<>>

RemoveAt(seq, i) == [j \in 1 .. Len(seq) - 1 |-> IF j < i THEN seq[j] ELSE seq[j + 1]]

Range(seq) == {seq[i] : i \in 1 .. Len(seq)}

FetchResolve(ci, r) ==
    /\ effectsPending = "none"
    /\ ci \in 1 .. Len(cycles)
    /\ LET c   == cycles[ci]
           sym == c.syms[c.i]
           nxt == TryFetch(c.next, sym, r)
           k   == dayKey(now)
       IN  IF ~LastFetch(c)
           THEN /\ cycles' = [cycles EXCEPT ![ci] =
                                [c EXCEPT !.i = c.i + 1, !.next = nxt, !.res = Append(c.res, r)]]
                /\ ev' = Ev("fetch")
                /\ UNCHANGED <<store, quotes, quotesTs, loadingPrices, priceLog>>
           ELSE /\ quotes' = nxt
                /\ quotesTs' = now
                /\ loadingPrices' = FALSE
                /\ priceLog' = IF c.logLoaded
                               THEN logTodayFromQuotes(priceLog, c.syms, nxt, now)
                               ELSE priceLog
                /\ cycles' = RemoveAt(cycles, ci)
                /\ store' = [store EXCEPT !.quotes = Json(quotes'), !.ts = Json(quotesTs'),
                                          !.log = IF priceLog'.null THEN @ ELSE Json(priceLog'.v)]
                /\ ev' = [Ev("done") EXCEPT
                            !.force = c.force,
                            !.n = Len(c.syms),
                            !.r = r,
                            !.wasQuoted = \E s \in Range(c.syms) :
                                             quotes[s].tag = "quote" /\ nxt[s].tag = "null",
                            !.had = \E s \in Range(c.syms) : HasKey(safeLog[s], k),
                            !.over = \E s \in Range(c.syms) :
                                        /\ HasKey(safeLog[s], k)
                                        /\ nxt[s].c # NoPrice
                                        /\ Get(safeLog[s], k) # nxt[s].c]
    /\ UNCHANGED <<now, items, effectsPending, nextId, ops, autoDay>>
    /\ UNCHANGED <<chartVars, divVars, calVars, tabVars>>

----------------------------------------------------------------------------
\* The clock

Tick(d) ==
    /\ effectsPending = "none"
    /\ ((now - StartNow) % DAY) + d <= MaxElapsed
    /\ now' = now + d
    /\ ev' = Ev("tick")
    /\ UNCHANGED <<store, items, quotes, quotesTs, loadingPrices, priceLog, cycles, effectsPending, nextId>>
    /\ UNCHANGED <<chartVars, divVars, calVars, tabVars>>
    /\ ops < MaxOps
    /\ UNCHANGED autoDay
    /\ ops' = ops + 1

NextDay ==
    /\ effectsPending = "none"
    /\ (now - StartNow) \div DAY < MaxDays
    /\ now' = now + DAY
    /\ ev' = Ev("day")
    /\ UNCHANGED <<store, items, quotes, quotesTs, loadingPrices, priceLog, cycles, effectsPending, nextId>>
    /\ UNCHANGED <<chartVars, divVars, calVars, tabVars>>
    /\ ops < MaxOps
    /\ UNCHANGED autoDay
    /\ ops' = ops + 1

----------------------------------------------------------------------------

Add == \E id \in {nextId}, s \in Symbols \cup {""}, sh \in ShareInputs : add(id, s, sh)
Del == \E id \in 1 .. nextId : del(id)
EditShares == \E id \in 1 .. nextId, v \in EditInputs : editShares(id, v)
Fetch == \E ci \in 1 .. MaxCycles, r \in FetchOutcomes : FetchResolve(ci, r)
Clock == \E d \in Steps : Tick(d)

Next ==
    \/ Mount
    \/ EffAuto
    \/ EffDaily
    \/ Add
    \/ Del
    \/ EditShares
    \/ ClickRefresh
    \/ Reset
    \/ Fetch
    \/ Clock
    \/ NextDay

Spec == Init /\ [][Next]_vars

\* The page left to itself: effects and fetches always run to their end, the
\* user and the clock act or not, and the log is never reset.
NextLive ==
    \/ Mount
    \/ EffAuto
    \/ EffDaily
    \/ Add
    \/ Del
    \/ EditShares
    \/ ClickRefresh
    \/ Fetch
    \/ Clock
    \/ NextDay

LiveSpec ==
    /\ Init /\ [][NextLive]_vars
    /\ WF_vars(Mount) /\ WF_vars(EffAuto) /\ WF_vars(EffDaily) /\ WF_vars(Fetch)

----------------------------------------------------------------------------
\* The charts of a loaded page: the user selects range and mode, time passes.
\* The refresh cycles are those of Spec and are left out here.

MaxChartDays == 1

\* the date key of the day `a` days before the first day of the model
AgeKey(a) == dayKey(StartNow - a * DAY)

MkObj(ages, prices) == [i \in 1 .. Len(ages) |-> Entry(AgeKey(ages[i]), prices[i])]

ChartItems ==
    { <<>>,
      <<Item(1, "AAPL", 10)>>,
      <<Item(2, "MSFT", 3), Item(1, "AAPL", 10)>>,
      <<Item(2, "AAPL", 2), Item(1, "AAPL", 1)>>,
      <<Item(2, "MSFT", 0), Item(1, "AAPL", 1)>> }

ChartLogsAAPL ==
    { <<>>,
      MkObj(<<0>>, <<150>>),
      <<Entry(<<2024, 1, 1>>, 150), Entry(<<2024, 1, 10>>, 160)>>,
      MkObj(<<400, 365, 364, 180, 90, 30, 29, 0>>, <<1, 2, 3, 4, 5, 6, 7, 8>>),
      MkObj(<<29, 1>>, <<0, 5>>),
      MkObj(<<1, 29>>, <<3, 2>>),
      MkObj(<<31, 30>>, <<4, 6>>) }

ChartLogsMSFT ==
    { <<>>,
      MkObj(<<29, 2>>, <<7, 9>>),
      MkObj(<<200>>, <<5>>) }

ChartModes == {"total", "overlay", "normalized"}

ChartInit ==
    /\ now = StartNow
    /\ \E list \in ChartItems, a \in ChartLogsAAPL, m \in ChartLogsMSFT :
          /\ items = [null |-> FALSE, v |-> list]
          /\ priceLog = [null |-> FALSE, v |-> [s \in Symbols |-> IF s = "AAPL" THEN a ELSE m]]
    /\ quotes = [s \in Symbols |-> Absent]
    /\ quotesTs = 0
    /\ store = [portfolio |-> Json(items.v), quotes |-> Json(quotes),
                ts |-> Json(quotesTs), log |-> Json(priceLog.v)]
    /\ loadingPrices = FALSE
    /\ cycles = <<>>
    /\ effectsPending = "none"
    /\ nextId = FirstId
    /\ ops = 0
    /\ autoDay = <<0, 0, 0>>
    /\ ev = Ev("init")
    /\ range = "365D"
    /\ chartMode \in {"total", "overlay"}
    /\ DivIdle /\ CalIdle /\ TabIdle

\* <select value={range} onChange={(e) => setRange(e.target.value)}>
SetRange(r) ==
    /\ r # range
    /\ range' = r
    /\ UNCHANGED <<pageVars, chartMode, divVars, calVars, tabVars>>

\* <select value={chartMode} onChange={(e) => setChartMode(e.target.value)}>
SetChartMode(m) ==
    /\ m # chartMode
    /\ chartMode' = m
    /\ UNCHANGED <<pageVars, range, divVars, calVars, tabVars>>

\* the clock reaches the next local midnight
Midnight ==
    /\ (now \div DAY + 1) * DAY - StartNow <= MaxChartDays * DAY
    /\ now' = (now \div DAY + 1) * DAY
    /\ UNCHANGED <<store, items, quotes, quotesTs, loadingPrices, priceLog, cycles,
                   effectsPending, nextId, ops, autoDay, ev>>
    /\ UNCHANGED <<chartVars, divVars, calVars, tabVars>>

SelectRange == \E r \in Ranges : SetRange(r)
SelectMode == \E m \in ChartModes : SetChartMode(m)

ChartNext ==
    \/ SelectRange
    \/ SelectMode
    \/ Midnight

ChartSpec == ChartInit /\ [][ChartNext]_vars

\* The portfolio page is not open
PageClosed ==
    /\ now = StartNow
    /\ items = [null |-> TRUE, v |-> <<>>]
    /\ quotes = [s \in Symbols |-> Absent]
    /\ quotesTs = 0
    /\ loadingPrices = FALSE
    /\ priceLog = [null |-> TRUE, v |-> EmptyLog]
    /\ cycles = <<>>
    /\ effectsPending = "none"
    /\ nextId = FirstId
    /\ ops = 0
    /\ autoDay = <<0, 0, 0>>
    /\ ev = Ev("init")

----------------------------------------------------------------------------
\* The dividends page.  Money is counted in units of 1/12000 (a twelfth of a
\* thousandth), so that an annual amount given in thousandths divides exactly
\* by 12, 4, 2 and 1 payments; the values of a chart are whole cents.

UnitsPerCent == 120
Cents(c) == c * UnitsPerCent

\* Number(x.toFixed(2)): the nearest cent, the larger one of two equally near
toFixed2_floor(v) == v \div UnitsPerCent

toFixed2(v) == (v + UnitsPerCent \div 2) \div UnitsPerCent

Frequencies == {"Monthly", "Quarterly", "Semi-Annual", "Annual"}

freqToMonths(freq) ==
    IF freq = "Monthly" THEN 1 ELSE IF freq = "Quarterly" THEN 3
    ELSE IF freq = "Semi-Annual" THEN 6 ELSE 12

\* the step in months taken for the count of payments a year
freqCountPerYear_months(freq) ==
    IF freq = "Monthly" THEN 1 ELSE IF freq = "Quarterly" THEN 3
    ELSE IF freq = "Semi-Annual" THEN 6 ELSE 12

freqCountPerYear(freq) ==
    IF freq = "Monthly" THEN 12 ELSE IF freq = "Quarterly" THEN 4
    ELSE IF freq = "Semi-Annual" THEN 2 ELSE 1

DividendEvent(id, s, date, a) == [id |-> id, symbol |-> s, date |-> date, amount |-> a]

DividendSetting(s, aps, freq, npd) ==
    [symbol |-> s, annualPerShare |-> aps, frequency |-> freq, nextPayDate |-> npd]

\* the empty string of a date input
NoDate == <<0, 0, 0>>

\* `${d.getFullYear()}-${String(d.getMonth() + 1).padStart(2, "0")}`
MonthKey(d) == <<getFullYear(d), getMonth(d) + 1>>

\* new Date(now.getFullYear(), now.getMonth(), 1)
FirstOfMonth(t) == NewDate(dayKey(t)[1], dayKey(t)[2] - 1, 1)

ActualStart_12(t) == addMonths(FirstOfMonth(t), -12)

ActualStart(t) == addMonths(FirstOfMonth(t), -11)

\* a sequence given by its elements, as the tuple of those elements
Tuple(f) == f \o <<>>

\* for (let i = 0; i < 12; i++) buckets.set(key of addMonths(start, i), 0): the
\* keys in the order of their first insertion, a key set twice staying one bucket
InitBuckets(start) ==
    LET raw  == Tuple([i \in 1 .. 12 |-> <<i, MonthKey(addMonths(start, i - 1))>>])
        kept == SelectSeq(raw, LAMBDA e : \A j \in 1 .. e[1] - 1 : raw[j][2] # e[2])
    IN  Tuple([i \in 1 .. Len(kept) |-> Entry(kept[i][2], 0)])

\* the key of no bucket
NoMonth == <<0, 0>>

\* One pass of a loop that adds to the buckets is the sequence of its additions
\* [k |-> month key, v |-> amount].
\* const d = parseYmd(ev.date); if (d < start) continue; k = key of d; add ev.amount
EventAdds(evs, start) ==
    Tuple([i \in 1 .. Len(evs) |->
              IF parseYmd(evs[i].date) < start THEN Entry(NoMonth, 0)
              ELSE Entry(MonthKey(parseYmd(evs[i].date)), evs[i].amount)])

RECURSIVE SumTo(_, _)
SumTo(f, n) == IF n = 0 THEN 0 ELSE f[n] + SumTo(f, n - 1)

\* if (buckets.has(k)) buckets.set(k, (buckets.get(k) ?? 0) + a), for every addition
Accumulate(b, adds) ==
    Tuple([i \in 1 .. Len(b) |->
              Entry(b[i].k,
                    b[i].v + SumTo([n \in 1 .. Len(adds) |-> IF adds[n].k = b[i].k THEN adds[n].v ELSE 0],
                                   Len(adds)))])

\* labels and values: the buckets in insertion order, each value rounded to cents
BucketValues(b) == Tuple([i \in 1 .. Len(b) |-> Entry(b[i].k, toFixed2(b[i].v))])

ActualMonthlyOf(evs, t) ==
    BucketValues(Accumulate(InitBuckets(ActualStart(t)), EventAdds(evs, ActualStart(t))))

\* a symbol without a holding counted as one share
SharesOf_one(list, sym) ==
    LET at == {i \in 1 .. Len(list) : list[i].symbol = sym}
    IN  IF at = {} THEN 1 ELSE list[CHOOSE i \in at : \A i2 \in at : i2 <= i].shares

\* for (const p of portfolio ?? []) map[p.symbol] = p.shares;  sharesBySymbol[sym] ?? 0
SharesOf(list, sym) ==
    LET at == {i \in 1 .. Len(list) : list[i].symbol = sym}
    IN  IF at = {} THEN 0 ELSE list[CHOOSE i \in at : \A i2 \in at : i2 <= i].shares

\* while (pay < start) pay = addMonths(pay, stepMonths)
RECURSIVE RollForward(_, _, _)
RollForward(pay, start, step) ==
    IF pay < start THEN RollForward(addMonths(pay, step), start, step) ELSE pay

\* the loop also runs for a pay date at the end of the window
RECURSIVE PayDatesFrom_inclusive(_, _, _)
PayDatesFrom_inclusive(pay, end, step) ==
    IF pay <= end THEN <<pay>> \o PayDatesFrom_inclusive(addMonths(pay, step), end, step) ELSE <<>>

\* while (pay < end) { ...; pay = addMonths(pay, stepMonths) }: the values of pay in the body
RECURSIVE PayDatesFrom(_, _, _)
PayDatesFrom(pay, end, step) ==
    IF pay < end THEN <<pay>> \o PayDatesFrom(addMonths(pay, step), end, step) ELSE <<>>

\* the number of periods the roll forward skips
RECURSIVE Skipped(_, _, _)
Skipped(pay, start, step) ==
    IF pay < start THEN 1 + Skipped(addMonths(pay, step), start, step) ELSE 0

\* the forecast pays the skipped periods with the first payment
SettingAdds_arrears(st, shares, start) ==
    IF shares = 0 \/ st.nextPayDate = NoDate THEN <<>>
    ELSE LET step  == freqToMonths(st.frequency)
             amt   == shares * (st.annualPerShare \div freqCountPerYear(st.frequency))
             first == RollForward(parseYmd(st.nextPayDate), start, step)
             dates == PayDatesFrom(first, addMonths(start, 12), step)
         IN  <<Entry(MonthKey(first), amt * Skipped(parseYmd(st.nextPayDate), start, step))>>
             \o [n \in 1 .. Len(dates) |-> Entry(MonthKey(dates[n]), amt)]

\* the body of for (const sym of Object.keys(settings)): shares * perPayment for
\* every pay date from the rolled-forward nextPayDate to the end of the window
SettingAdds(st, shares, start) ==
    IF shares = 0 \/ st.nextPayDate = NoDate THEN <<>>
    ELSE LET step  == freqToMonths(st.frequency)
             amt   == shares * (st.annualPerShare \div freqCountPerYear(st.frequency))
             first == RollForward(parseYmd(st.nextPayDate), start, step)
             dates == PayDatesFrom(first, addMonths(start, 12), step)
         IN  [n \in 1 .. Len(dates) |-> Entry(MonthKey(dates[n]), amt)]

RECURSIVE SettingLoop(_, _, _, _)
SettingLoop(setts, list, start, i) ==
    IF i > Len(setts) THEN <<>>
    ELSE SettingAdds(setts[i].v, SharesOf(list, setts[i].k), start)
         \o SettingLoop(setts, list, start, i + 1)

ForecastMonthlyOf(setts, list, t) ==
    BucketValues(Accumulate(InitBuckets(FirstOfMonth(t)), SettingLoop(setts, list, FirstOfMonth(t), 1)))

\* v.reduce((a, b) => a + b, 0)
RECURSIVE SumValues(_, _)
SumValues(b, n) == IF n = 0 THEN 0 ELSE b[n].v + SumValues(b, n - 1)

divReady == ~portfolio.null /\ ~events.null /\ ~settings.null

actualMonthly == ActualMonthlyOf(events.v, now)
forecastMonthly == ForecastMonthlyOf(settings.v, portfolio.v, now)
totalActual12m == SumValues(actualMonthly, Len(actualMonthly))
totalForecast12m == SumValues(forecastMonthly, Len(forecastMonthly))

\* loadJson(key, fallback)
loadJson(b, fallback) == IF b.tag = "json" THEN b.val ELSE fallback

MaxDivOps == 1
MaxDivMonths == 1

DivPortfolios ==
    { NoBlob(<<>>),
      Json(<<Item(1, "AAPL", 10)>>),
      Json(<<Item(2, "MSFT", 0), Item(1, "AAPL", 10)>>) }

DivStores ==
    { [events |-> NoBlob(<<>>), settings |-> NoBlob(<<>>)],
      [events |-> Json(<<DividendEvent(1, "AAPL", <<2024, 3, 1>>, Cents(5000))>>),
       settings |-> Json(<<Entry("AAPL", DividendSetting("AAPL", Cents(1200), "Monthly", <<2024, 2, 15>>))>>)],
      [events |-> Json(<<DividendEvent(2, "MSFT", <<2023, 3, 31>>, 48),
                         DividendEvent(1, "AAPL", <<2023, 3, 1>>, 48)>>),
       settings |-> Json(<<Entry("MSFT", DividendSetting("MSFT", Cents(400), "Quarterly", <<2024, 1, 31>>)),
                           Entry("AAPL", DividendSetting("AAPL", Cents(100), "Monthly", <<2023, 12, 1>>))>>)] }

EventDates == {NoDate, <<2023, 3, 1>>, <<2024, 2, 29>>, <<2024, 3, 1>>}
EventAmounts == {0, 48, Cents(2000)}
SettingAmounts == {Cents(1200)}
PayDates == {<<2023, 1, 31>>, <<2024, 2, 15>>, <<2024, 5, 31>>, <<2025, 2, 1>>}

DivInit ==
    /\ PageClosed
    /\ store \in {[portfolio |-> b, quotes |-> NoBlob([s \in Symbols |-> Absent]),
                   ts |-> NoBlob(0), log |-> NoBlob(EmptyLog)] : b \in DivPortfolios}
    /\ divStore \in DivStores
    /\ portfolio = [null |-> TRUE, v |-> <<>>]
    /\ events = [null |-> TRUE, v |-> <<>>]
    /\ settings = [null |-> TRUE, v |-> <<>>]
    /\ ChartIdle /\ CalIdle /\ TabIdle

\* the load effect, and the save effects of the render that follows
DivMount ==
    /\ ~divReady
    /\ portfolio' = [null |-> FALSE, v |-> loadJson(store.portfolio, <<>>)]
    /\ events' = [null |-> FALSE, v |-> loadJson(divStore.events, <<>>)]
    /\ settings' = [null |-> FALSE, v |-> loadJson(divStore.settings, <<>>)]
    /\ divStore' = [events |-> Json(events'.v), settings |-> Json(settings'.v)]
    /\ UNCHANGED <<pageVars, chartVars, calVars, tabVars>>

DivFrame ==
    /\ ops < MaxDivOps
    /\ ops' = ops + 1
    /\ UNCHANGED <<now, store, items, quotes, quotesTs, loadingPrices, priceLog, cycles,
                   effectsPending, autoDay, ev>>
    /\ UNCHANGED <<portfolio, chartVars, calVars, tabVars>>

\* addEvent(): s is the selected symbol, a the parsed amount
addEvent(s, date, a) ==
    /\ divReady
    /\ IF s = "" \/ date = NoDate \/ ~isFinite(a) \/ a <= 0
       THEN UNCHANGED <<events, divStore, nextId>>
       ELSE /\ events' = [events EXCEPT !.v = <<DividendEvent(nextId, s, date, a)>> \o @]
            /\ divStore' = [divStore EXCEPT !.events = Json(events'.v)]
            /\ nextId' = nextId + 1
    /\ UNCHANGED settings
    /\ DivFrame

delEvent(id) ==
    /\ divReady
    /\ \E i \in 1 .. Len(events.v) : events.v[i].id = id
    /\ events' = [events EXCEPT !.v = SelectSeq(@, LAMBDA e : e.id # id)]
    /\ divStore' = [divStore EXCEPT !.events = Json(events'.v)]
    /\ UNCHANGED <<settings, nextId>>
    /\ DivFrame

\* saveSetting(): s is the selected symbol, aps the parsed annual amount
saveSetting(s, aps, freq, npd) ==
    /\ divReady
    /\ IF s = "" \/ npd = NoDate \/ aps < 0
       THEN UNCHANGED <<settings, divStore>>
       ELSE /\ settings' = [settings EXCEPT !.v = ObjSet(@, s, DividendSetting(s, aps, freq, npd))]
            /\ divStore' = [divStore EXCEPT !.settings = Json(settings'.v)]
    /\ UNCHANGED <<events, nextId>>
    /\ DivFrame

deleteSetting(sym) ==
    /\ divReady
    /\ HasKey(settings.v, sym)
    /\ settings' = [settings EXCEPT !.v = SelectSeq(@, LAMBDA e : e.k # sym)]
    /\ divStore' = [divStore EXCEPT !.settings = Json(settings'.v)]
    /\ UNCHANGED <<events, nextId>>
    /\ DivFrame

\* the options of the symbol selects: "" and the held symbols
SymbolOptions == {""} \cup {portfolio.v[i].symbol : i \in 1 .. Len(portfolio.v)}

AddDividend == \E s \in SymbolOptions, date \in EventDates, a \in EventAmounts : addEvent(s, date, a)
DelDividend == \E id \in 1 .. nextId : delEvent(id)
SaveSetting ==
    \E s \in SymbolOptions, aps \in SettingAmounts, freq \in Frequencies, npd \in PayDates \cup {NoDate} :
        saveSetting(s, aps, freq, npd)
DeleteSetting == \E sym \in Symbols : deleteSetting(sym)

\* the clock reaches the first day of the next month
MonthPasses ==
    /\ MonthKey(FirstOfMonth(now))[1] * 12 + MonthKey(FirstOfMonth(now))[2]
          < MonthKey(FirstOfMonth(StartNow))[1] * 12 + MonthKey(FirstOfMonth(StartNow))[2] + MaxDivMonths
    /\ now' = addMonths(FirstOfMonth(now), 1) * DAY
    /\ UNCHANGED <<store, items, quotes, quotesTs, loadingPrices, priceLog, cycles,
                   effectsPending, nextId, ops, autoDay, ev>>
    /\ UNCHANGED <<chartVars, divVars, calVars, tabVars>>

DivNext ==
    \/ DivMount
    \/ AddDividend
    \/ DelDividend
    \/ SaveSetting
    \/ DeleteSetting
    \/ MonthPasses

DivSpec == DivInit /\ [][DivNext]_vars

----------------------------------------------------------------------------
\* addMonths on its own: one call forward, then one call back by the same count

MaxCalYears == 2
FirstCalYear == 2023

CalDates == DaysFromCivil(<<FirstCalYear, 1, 1>>) .. DaysFromCivil(<<FirstCalYear + MaxCalYears, 1, 1>>) - 1

\* the frequency steps, the offsets of the window start and of the buckets, and their negatives
CalMonths == {-12, -11, -6, -3, -1} \cup 0 .. 12

PageIdle ==
    /\ PageClosed
    /\ store = [portfolio |-> NoBlob(<<>>), quotes |-> NoBlob([s \in Symbols |-> Absent]),
                ts |-> NoBlob(0), log |-> NoBlob(EmptyLog)]

CalInit ==
    /\ PageIdle /\ ChartIdle /\ DivIdle /\ TabIdle
    /\ calDate \in CalDates
    /\ calMonths \in CalMonths
    /\ calOut = <<>>

CallAddMonths ==
    /\ Len(calOut) = 0
    /\ calOut' = <<addMonths(calDate, calMonths)>>
    /\ UNCHANGED <<pageVars, chartVars, divVars, calDate, calMonths, tabVars>>

CallAddMonthsBack ==
    /\ Len(calOut) = 1
    /\ calOut' = Append(calOut, addMonths(calOut[1], 0 - calMonths))
    /\ UNCHANGED <<pageVars, chartVars, divVars, calDate, calMonths, tabVars>>

CalNext ==
    \/ CallAddMonths
    \/ CallAddMonthsBack

CalSpec == CalInit /\ [][CalNext]_vars

----------------------------------------------------------------------------
\* The pay dates of the forecast loops: let pay = parseYmd(st.nextPayDate), then
\* pay = addMonths(pay, stepMonths) again and again

MaxSteps == 3

StepInit ==
    /\ PageIdle /\ ChartIdle /\ DivIdle /\ TabIdle
    /\ calDate \in CalDates
    /\ calMonths \in {freqToMonths(f) : f \in Frequencies}
    /\ calOut = <<>>

\* let pay = parseYmd(st.nextPayDate)
ParsePay ==
    /\ Len(calOut) = 0
    /\ calOut' = <<parseYmd(ymd(calDate))>>
    /\ UNCHANGED <<pageVars, chartVars, divVars, calDate, calMonths, tabVars>>

\* pay = addMonths(pay, stepMonths)
StepPay ==
    /\ Len(calOut) \in 1 .. MaxSteps
    /\ calOut' = Append(calOut, addMonths(calOut[Len(calOut)], calMonths))
    /\ UNCHANGED <<pageVars, chartVars, divVars, calDate, calMonths, tabVars>>

StepNext ==
    \/ ParsePay
    \/ StepPay

StepSpec == StepInit /\ [][StepNext]_vars

----------------------------------------------------------------------------
\* The forms of the two pages, with everything a user can put into their fields

NonFinite == {NaN, Infinity}

\* the stores of a page that is loaded and at rest: its load starts no refresh
RestStores ==
    {st \in InitStores :
        EffectStarts(LoadItems(st.portfolio), loadPriceLog(st.log), LoadTs(st.ts, 0), StartNow) = 0}

\* the portfolio page is loaded and nothing is in flight
PageAtRest ==
    /\ now = StartNow
    /\ \E st \in RestStores :
          /\ items = [null |-> FALSE, v |-> LoadItems(st.portfolio)]
          /\ quotes = st.quotes.val
          /\ quotesTs = LoadTs(st.ts, 0)
          /\ priceLog = [null |-> FALSE, v |-> loadPriceLog(st.log)]
    /\ store = [portfolio |-> Json(items.v), quotes |-> Json(quotes),
                ts |-> Json(quotesTs), log |-> Json(priceLog.v)]
    /\ loadingPrices = FALSE
    /\ cycles = <<>>
    /\ effectsPending = "none"
    /\ nextId = FirstId
    /\ ops = 0
    /\ autoDay = <<0, 0, 0>>
    /\ ev = Ev("init")

\* both pages are loaded
FormInit ==
    /\ PageAtRest
    /\ portfolio = [null |-> FALSE, v |-> items.v]
    /\ \E dst \in DivStores :
          /\ events = [null |-> FALSE, v |-> loadJson(dst.events, <<>>)]
          /\ settings = [null |-> FALSE, v |-> loadJson(dst.settings, <<>>)]
    /\ divStore = [events |-> Json(events.v), settings |-> Json(settings.v)]
    /\ ChartIdle /\ CalIdle /\ TabIdle

FormAdd == \E id \in {nextId}, s \in Symbols \cup {""}, sh \in ShareInputs \cup NonFinite : add(id, s, sh)
FormEditShares == \E id \in 1 .. nextId, v \in EditInputs \cup NonFinite : editShares(id, v)
FormAddDividend ==
    \E s \in SymbolOptions, date \in EventDates, a \in EventAmounts \cup NonFinite : addEvent(s, date, a)

FormNext ==
    \/ EffAuto
    \/ EffDaily
    \/ Fetch
    \/ FormAdd
    \/ FormEditShares
    \/ FormAddDividend

FormSpec == FormInit /\ [][FormNext]_vars

----------------------------------------------------------------------------
\* The start of a session, effect by effect.  The effects of the first render
\* run in the order of their declaration and see the state of that render
\* (items and priceLog null, quotes {} and quotesTs 0); the state they set is
\* rendered next, and the save effects run again with it.

NoQuotes == [s \in Symbols |-> Absent]

LoadStores ==
    { [portfolio |-> b1, quotes |-> b2, ts |-> b3, log |-> b4] :
         b1 \in {NoBlob(<<>>), Malformed(<<>>), Json(<<Item(1, "AAPL", 1)>>)},
         b2 \in {NoBlob(NoQuotes), Malformed(NoQuotes), Json(NoQuotes),
                 Json([s \in Symbols |-> IF s = "AAPL" THEN Quote(0) ELSE Absent])},
         b3 \in {NoBlob(0), Malformed(0), Json(StartNow - 2)},
         b4 \in {NoBlob(EmptyLog), Malformed(EmptyLog),
                 Json([EmptyLog EXCEPT !["AAPL"] = <<Entry(Yesterday, 1)>>])} }

LoadDivStores ==
    { [events |-> b1, settings |-> b2] :
         b1 \in {NoBlob(<<>>), Malformed(<<>>),
                 Json(<<DividendEvent(1, "AAPL", <<2024, 3, 1>>, Cents(5000))>>)},
         b2 \in {NoBlob(<<>>), Malformed(<<>>),
                 Json(<<Entry("AAPL", DividendSetting("AAPL", Cents(1200), "Monthly", <<2024, 2, 15>>))>>)} }

LoadInit ==
    /\ now = StartNow
    /\ store \in LoadStores
    /\ items = [null |-> TRUE, v |-> <<>>]
    /\ quotes = NoQuotes
    /\ quotesTs = 0
    /\ loadingPrices = FALSE
    /\ priceLog = [null |-> TRUE, v |-> EmptyLog]
    /\ cycles = <<>>
    /\ effectsPending = "mount"
    /\ nextId = FirstId
    /\ ops = 0
    /\ autoDay = <<0, 0, 0>>
    /\ ev = Ev("init")
    /\ divStore \in LoadDivStores
    /\ portfolio = [null |-> TRUE, v |-> <<>>]
    /\ events = [null |-> TRUE, v |-> <<>>]
    /\ settings = [null |-> TRUE, v |-> <<>>]
    /\ ChartIdle /\ CalIdle /\ TabIdle

LoadFrame ==
    /\ UNCHANGED <<now, loadingPrices, cycles, nextId, ops, autoDay, ev>>
    /\ UNCHANGED <<chartVars, divVars, calVars, tabVars>>

\* Load items AFTER mount
EffLoadItems ==
    /\ effectsPending = "mount"
    /\ items' = [null |-> FALSE, v |-> LoadItems(store.portfolio)]
    /\ effectsPending' = "save items"
    /\ UNCHANGED <<store, quotes, quotesTs, priceLog>>
    /\ LoadFrame

\* Save items only AFTER loaded
EffSaveItems ==
    /\ \/ /\ effectsPending = "save items"
          /\ effectsPending' = "load quotes"
          /\ UNCHANGED store
       \/ /\ effectsPending = "render"
          /\ effectsPending' = "save quotes again"
          /\ store' = [store EXCEPT !.portfolio = Json(items.v)]
    /\ UNCHANGED <<items, quotes, quotesTs, priceLog>>
    /\ LoadFrame

\* Load cached quotes + timestamp.  JSON.parse is not in a try block: on a
\* malformed cache the effect throws, the effects after it do not run and the
\* page is taken down.
EffLoadQuotes ==
    /\ effectsPending = "load quotes"
    /\ IF store.quotes.tag = "bad"
       THEN /\ effectsPending' = "crashed"
            /\ UNCHANGED <<quotes, quotesTs>>
       ELSE /\ quotes' = IF store.quotes.tag = "none" THEN quotes ELSE store.quotes.val
            /\ quotesTs' = LoadTs(store.ts, quotesTs)
            /\ effectsPending' = "save quotes"
    /\ UNCHANGED <<store, items, priceLog>>
    /\ LoadFrame

\* Save quotes cache
EffSaveQuotes ==
    /\ \/ /\ effectsPending = "save quotes"
          /\ effectsPending' = "save ts"
          /\ store' = [store EXCEPT !.quotes = Json(NoQuotes)]
       \/ /\ effectsPending = "save quotes again"
          /\ effectsPending' = "save ts again"
          /\ store' = [store EXCEPT !.quotes = Json(quotes)]
    /\ UNCHANGED <<items, quotes, quotesTs, priceLog>>
    /\ LoadFrame

EffSaveTs ==
    /\ \/ /\ effectsPending = "save ts"
          /\ effectsPending' = "load log"
          /\ store' = [store EXCEPT !.ts = Json(0)]
       \/ /\ effectsPending = "save ts again"
          /\ effectsPending' = "save log again"
          /\ store' = [store EXCEPT !.ts = Json(quotesTs)]
    /\ UNCHANGED <<items, quotes, quotesTs, priceLog>>
    /\ LoadFrame

\* Load price log AFTER mount
EffLoadLog ==
    /\ effectsPending = "load log"
    /\ priceLog' = [null |-> FALSE, v |-> loadPriceLog(store.log)]
    /\ effectsPending' = "save log"
    /\ UNCHANGED <<store, items, quotes, quotesTs>>
    /\ LoadFrame

\* Save price log only after loaded.  The two effects declared after it return
\* at once in the first render (items is null), and are left to run in the next.
EffSaveLog ==
    /\ \/ /\ effectsPending = "save log"
          /\ effectsPending' = "render"
          /\ UNCHANGED store
       \/ /\ effectsPending = "save log again"
          /\ effectsPending' = "auto"
          /\ store' = [store EXCEPT !.log = Json(priceLog.v)]
    /\ UNCHANGED <<items, quotes, quotesTs, priceLog>>
    /\ LoadFrame

LoadNext ==
    \/ EffLoadItems
    \/ EffSaveItems
    \/ EffLoadQuotes
    \/ EffSaveQuotes
    \/ EffSaveTs
    \/ EffLoadLog
    \/ EffSaveLog
    \/ DivMount

LoadSpec == LoadInit /\ [][LoadNext]_vars

----------------------------------------------------------------------------
\* Two tabs on one localStorage.  The first tab is the page above, loaded; the second
\* runs the same code on its own state, and each of its handlers is taken
\* with the save effects that follow it.

Tab2FirstId == FirstId + MaxOps + 1

TabFrame ==
    /\ UNCHANGED <<now, items, quotes, quotesTs, loadingPrices, priceLog, cycles, effectsPending,
                   nextId, ops, autoDay, ev>>
    /\ UNCHANGED <<chartVars, divVars, calVars>>

\* the load effects of the second tab, and the save effects of the render that follows
Tab2Mount ==
    /\ tab2.items.null
    /\ store.quotes.tag # "bad"
    /\ tab2' = [items |-> [null |-> FALSE, v |-> LoadItems(store.portfolio)],
                priceLog |-> [null |-> FALSE, v |-> loadPriceLog(store.log)],
                quotes |-> IF store.quotes.tag = "none" THEN tab2.quotes ELSE store.quotes.val,
                quotesTs |-> LoadTs(store.ts, tab2.quotesTs),
                n |-> 0]
    /\ store' = [portfolio |-> Json(tab2'.items.v), quotes |-> Json(tab2'.quotes),
                 ts |-> Json(tab2'.quotesTs), log |-> Json(tab2'.priceLog.v)]
    /\ TabFrame

\* add() in the second tab
Tab2Add(s, sh) ==
    /\ ~tab2.items.null
    /\ tab2.n < MaxOps
    /\ IF s = "" \/ ~isFinite(sh) \/ sh <= 0
       THEN /\ tab2' = [tab2 EXCEPT !.n = @ + 1]
            /\ UNCHANGED store
       ELSE /\ Len(tab2.items.v) < MaxItems
            /\ tab2' = [tab2 EXCEPT !.items.v = <<Item(Tab2FirstId + tab2.n, s, sh)>> \o @, !.n = @ + 1]
            /\ store' = [store EXCEPT !.portfolio = Json(tab2'.items.v)]
    /\ TabFrame

\* del() in the second tab
Tab2Del(id) ==
    /\ ~tab2.items.null
    /\ tab2.n < MaxOps
    /\ \E i \in 1 .. Len(tab2.items.v) : tab2.items.v[i].id = id
    /\ tab2' = [tab2 EXCEPT !.items.v = SelectSeq(@, LAMBDA x : x.id # id), !.n = @ + 1]
    /\ store' = [store EXCEPT !.portfolio = Json(tab2'.items.v)]
    /\ TabFrame

\* the for loop of refreshQuotes over the holdings, res[i] being what the i-th fetch returns
RECURSIVE FetchAll(_, _, _, _)
FetchAll(next, syms, res, i) ==
    IF i > Len(syms) THEN next
    ELSE FetchAll(TryFetch(next, syms[i], res[i]), syms, res, i + 1)

\* refreshQuotes(true) in the second tab, from the click to the last save effect
Tab2Refresh(res) ==
    /\ ~tab2.items.null /\ ~tab2.priceLog.null
    /\ Len(tab2.items.v) # 0
    /\ tab2.n < MaxOps
    /\ LET syms == SymbolsOf(tab2.items.v)
           next == FetchAll([s \in Symbols |-> Absent], syms, res, 1)
       IN  /\ tab2' = [tab2 EXCEPT !.quotes = next, !.quotesTs = now,
                                   !.priceLog = logTodayFromQuotes(@, syms, next, now),
                                   !.n = @ + 1]
           /\ store' = [store EXCEPT !.quotes = Json(next), !.ts = Json(now),
                                     !.log = Json(tab2'.priceLog.v)]
    /\ TabFrame

Tab2AddHolding == \E s \in Symbols \cup {""}, sh \in ShareInputs : Tab2Add(s, sh)
Tab2DelHolding == \E id \in 1 .. Tab2FirstId + MaxOps : Tab2Del(id)
\* every fetch of the cycle has the same outcome
Tab2RefreshPrices == \E r \in FetchOutcomes : Tab2Refresh([i \in 1 .. Len(tab2.items.v) |-> r])

TabNext ==
    \/ EffAuto
    \/ EffDaily
    \/ Fetch
    \/ Add
    \/ Tab2Mount
    \/ Tab2AddHolding
    \/ Tab2DelHolding
    \/ Tab2RefreshPrices

TabInit == PageAtRest /\ ChartIdle /\ DivIdle /\ CalIdle /\ TabIdle

TabSpec == TabInit /\ [][TabNext]_vars

TypeOK ==
    /\ now \in Int
    /\ loadingPrices \in BOOLEAN
    /\ Len(cycles) <= MaxCycles
    /\ Len(safeItems) <= MaxItems

----------------------------------------------------------------------------
\* Properties

KeysOf(obj) == {obj[i].k : i \in 1 .. Len(obj)}

Count(obj, k) == Cardinality({i \in 1 .. Len(obj) : obj[i].k = k})

Held == {safeItems[i].symbol : i \in 1 .. Len(safeItems)}

\* The step completes the refresh cycle cycles[ci]
Completes(ci) ==
    /\ ci \in 1 .. Len(cycles)
    /\ Len(cycles') < Len(cycles)
    /\ cycles' = RemoveAt(cycles, ci)

\* The outcome of the j-th fetch of the cycle c that the step completes
Outcome(c, j) == IF j <= Len(c.res) THEN c.res[j] ELSE ev'.r

\* The symbols for which the completing cycle c ends with a current price
Priced(c) == {s \in Range(c.syms) : quotes'[s].c # NoPrice}

\* C1 (as stated): a refresh cycle that completes while some held symbol already
\* has a log entry for today leaves the price log unchanged.
C1_GatedByLoggedToday ==
    [][\A ci \in 1 .. Len(cycles) :
          (Completes(ci) /\ alreadyLoggedToday(safeLog, SymbolsOf(safeItems), now))
              => priceLog' = priceLog]_vars

\* C1 (amended): a refresh cycle that completes writes today's price of every
\* symbol it ends with a current price for into the log, whether or not a held
\* symbol already had an entry for today; an existing entry is overwritten.
C1_RefreshAlwaysLogs ==
    [][\A ci \in 1 .. Len(cycles) :
          Completes(ci) =>
              \A s \in Priced(cycles[ci]) :
                  /\ HasKey(priceLog'.v[s], dayKey(now))
                  /\ Get(priceLog'.v[s], dayKey(now)) = quotes'[s].c]_vars

C1_Witness ==
    /\ ev.op = "done" /\ ev.had
    /\ \E s \in Symbols :
          /\ quotes[s].c # NoPrice
          /\ HasKey(safeLog[s], dayKey(now))
          /\ Get(safeLog[s], dayKey(now)) = quotes[s].c

\* C2: recording a price for a (symbol, date) that already has an entry leaves
\* exactly one entry for it, holding the new price, and leaves every other
\* (symbol, date) entry as it was; no log ever has two entries for one date.
C2_LastWriteWins ==
    [][\A ci \in 1 .. Len(cycles) :
          Completes(ci) =>
              LET k == dayKey(now)
                  W == Priced(cycles[ci])
              IN  /\ \A s \in W :
                        /\ Count(priceLog'.v[s], k) = 1
                        /\ Get(priceLog'.v[s], k) = quotes'[s].c
                  /\ \A s \in Symbols :
                        /\ \A d \in KeysOf(safeLog[s]) : Count(priceLog'.v[s], d) = 1
                        /\ \A d \in KeysOf(safeLog[s]) \cup KeysOf(priceLog'.v[s]) :
                              (s \notin W \/ d # k) =>
                                  /\ d \in KeysOf(safeLog[s]) /\ d \in KeysOf(priceLog'.v[s])
                                  /\ Get(priceLog'.v[s], d) = Get(safeLog[s], d)]_vars

C2_Witness == ev.op = "done" /\ ev.over

\* C3: no step other than the full reset removes a (symbol, date) entry from
\* the log or changes the price stored under a date other than the current day;
\* deleting a holding leaves the entries of its symbol in place.
C3_AppendOnly ==
    [][Reset \/ \A s \in Symbols : \A d \in KeysOf(safeLog[s]) :
                   /\ HasKey(priceLog'.v[s], d)
                   /\ d # dayKey(now') => Get(priceLog'.v[s], d) = Get(safeLog[s], d)]_vars

C3_Witness ==
    /\ ev.op = "del"
    /\ \E s \in Symbols \ Held : Len(safeLog[s]) > 0

\* The last fetch of the symbol of the j-th holding of cycle c is the j-th
LastOfSymbol(c, j) == \A j2 \in 1 .. Len(c.syms) : j2 > j => c.syms[j2] # c.syms[j]

AllRealPrices ==
    \A s \in Symbols : \A i \in 1 .. Len(safeLog[s]) : safeLog[s][i].v \in Nat

\* C4 (as stated): when a fetch of a symbol fails or yields no current price in
\* a refresh cycle, the cycle leaves the log entries of that symbol as they
\* were, and every logged value is a real price.
C4_AnyFailedFetchOmits ==
    [][/\ AllRealPrices'
       /\ \A ci \in 1 .. Len(cycles) :
             Completes(ci) =>
                 \A j \in 1 .. Len(cycles[ci].syms) :
                     Outcome(cycles[ci], j).c = NoPrice
                         => priceLog'.v[cycles[ci].syms[j]] = safeLog[cycles[ci].syms[j]]]_vars

\* C4 (amended): when the last fetch of a symbol in a refresh cycle fails or
\* yields no current price, the cycle writes no entry for that symbol and leaves
\* its earlier entries as they were; every logged value is a real price.
C4_FailedSymbolOmitted ==
    [][/\ AllRealPrices'
       /\ \A ci \in 1 .. Len(cycles) :
             Completes(ci) =>
                 \A j \in 1 .. Len(cycles[ci].syms) :
                     (LastOfSymbol(cycles[ci], j) /\ Outcome(cycles[ci], j).c = NoPrice)
                         => priceLog'.v[cycles[ci].syms[j]] = safeLog[cycles[ci].syms[j]]]_vars

C4_Witness ==
    /\ ev.op = "done"
    /\ \E s \in Symbols :
          /\ quotes[s] \in {NullQuote, Quote(NoPrice)}
          /\ Len(safeLog[s]) > 0
          /\ ~HasKey(safeLog[s], dayKey(now))

\* C5 (as stated): when a fetch of symbol s fails in a refresh cycle, the cache
\* entry of s is null when the cycle completes and every other symbol whose
\* fetch succeeded has its fetched quote in the cache.
C5_AnyFailureMarksUnknown ==
    [][\A ci \in 1 .. Len(cycles) :
          Completes(ci) =>
              LET c == cycles[ci]
              IN  \A j \in 1 .. Len(c.syms) :
                      Outcome(c, j) = NullQuote =>
                          /\ quotes'[c.syms[j]] = NullQuote
                          /\ \A j2 \in 1 .. Len(c.syms) :
                                (c.syms[j2] # c.syms[j] /\ LastOfSymbol(c, j2)
                                    /\ Outcome(c, j2).tag = "quote")
                                    => quotes'[c.syms[j2]] = Outcome(c, j2)]_vars

\* C5 (amended): a refresh cycle fetches every holding whatever the earlier
\* fetches did, and when it completes the cache entry of each of its symbols
\* is the outcome of the last fetch of that symbol: the fetched quote, or null
\* when that fetch failed (never the entry of before the cycle).
C5_FailureIsolated ==
    [][\A ci \in 1 .. Len(cycles) :
          Completes(ci) =>
              LET c == cycles[ci]
              IN  /\ Len(c.res) + 1 = Len(c.syms)
                  /\ \A j \in 1 .. Len(c.syms) :
                        LastOfSymbol(c, j) => quotes'[c.syms[j]] = Outcome(c, j)]_vars

C5_Witness ==
    /\ ev.op = "done" /\ ev.wasQuoted
    /\ \E s, s2 \in Symbols : quotes[s] = NullQuote /\ quotes[s2].tag = "quote"

\* C6: refreshQuotes(false), called while the quote cache is less than five
\* minutes old, starts no cycle and changes nothing.
C6_FreshIsNoOp ==
    [][(/\ effectsPending = "auto" /\ effectsPending' = "daily"
        /\ quotesTs # 0 /\ now - quotesTs < QUOTE_CACHE_MS)
          => UNCHANGED <<cycles, quotes, quotesTs, loadingPrices, priceLog, store>>]_vars

C6_Witness ==
    /\ ev.op = "effAuto" /\ ~ev.started
    /\ ready /\ Len(safeItems) > 0
    /\ quotesTs # 0 /\ now - quotesTs < QUOTE_CACHE_MS

\* C7: a refresh cycle sets the cache timestamp only in the step in which its
\* last fetch resolves, to the time of that step, and replaces the cache in the
\* same step; no other step of a cycle changes the timestamp or the cache.
C7_TimestampAfterAllFetches ==
    [][/\ \A ci \in 1 .. Len(cycles) :
             Completes(ci) =>
                 /\ cycles[ci].i = Len(cycles[ci].syms)
                 /\ Len(cycles[ci].res) = Len(cycles[ci].syms) - 1
                 /\ quotesTs' = now'
                 /\ \A s \in Symbols : s \in Range(cycles[ci].syms) <=> quotes'[s] # Absent
       /\ (quotesTs' # quotesTs \/ quotes' # quotes)
             => (effectsPending = "mount" \/ \E ci \in 1 .. Len(cycles) : Completes(ci))]_vars

C7_Witness == ev.op = "done" /\ ev.n >= 2 /\ quotesTs = now

\* C8 (as stated): after a forced refresh cycle in which the fetch of a held
\* symbol succeeded, some held symbol has a log entry for today; after a reset
\* none has.
C8_AnySuccessLogsToday ==
    [][/\ \A ci \in 1 .. Len(cycles) :
             (/\ Completes(ci) /\ cycles[ci].force
              /\ \E j \in 1 .. Len(cycles[ci].syms) :
                    cycles[ci].syms[j] \in Held /\ Outcome(cycles[ci], j).tag = "quote")
                 => alreadyLoggedToday(priceLog'.v, SymbolsOf(safeItems'), now')
       /\ Reset => ~alreadyLoggedToday(priceLog'.v, SymbolsOf(safeItems'), now')]_vars

\* C8 (amended): after a forced refresh cycle that ends with a current price
\* for a held symbol, some held symbol has a log entry for today, even if the
\* other fetches failed; after a reset none has.
C8_PricedSuccessLogsToday ==
    [][/\ \A ci \in 1 .. Len(cycles) :
             (Completes(ci) /\ cycles[ci].force /\ Priced(cycles[ci]) \cap Held # {})
                 => alreadyLoggedToday(priceLog'.v, SymbolsOf(safeItems'), now')
       /\ Reset => ~alreadyLoggedToday(priceLog'.v, SymbolsOf(safeItems'), now')]_vars

C8_Witness ==
    /\ ev.op = "done" /\ ev.force
    /\ \E s \in Held : quotes[s] = NullQuote
    /\ \E s \in Held : quotes[s].c # NoPrice
    /\ alreadyLoggedToday(safeLog, SymbolsOf(safeItems), now)

NotLoggedToday ==
    /\ ready /\ Len(safeItems) > 0
    /\ ~alreadyLoggedToday(safeLog, SymbolsOf(safeItems), now)

\* C9: whenever the page is loaded with holdings none of which has a log entry
\* for the current day, and the daily effect has not yet started a refresh on
\* that day, it eventually starts one, also after the day changed.
C9_DailyForcedRefresh ==
    [](NotLoggedToday /\ autoDay # dayKey(now) => <>(autoDay = dayKey(now)))

\* C10: the series of a symbol has one point per logged date, at the local
\* midnight of the date and with the logged price, is strictly ascending by
\* timestamp and has no point for a date without entry.
C10_SeriesFromLog ==
    \A s \in Symbols :
        LET ser == toSeriesFromLog(safeLog, s)
            obj == safeLog[s]
        IN  /\ Len(ser) = Cardinality(KeysOf(obj))
            /\ \A k \in KeysOf(obj) :
                  Cardinality({i \in 1 .. Len(ser) :
                                  /\ dayKey(ser[i][1]) = k
                                  /\ ser[i][1] % DAY = 0
                                  /\ ser[i][2] = Get(obj, k)}) = 1
            /\ \A i \in 1 .. Len(ser) - 1 : ser[i][1] < ser[i + 1][1]
            /\ \A i \in 1 .. Len(ser) : dayKey(ser[i][1]) \in KeysOf(obj)

C10_Witness ==
    \E s \in Symbols :
        /\ Len(safeLog[s]) >= 3
        /\ toSeriesFromLog(safeLog, s) # EntriesToPoints(safeLog[s])

\* a is b with some of its elements left out, the others in the order of b
RECURSIVE IsSubSeq(_, _)
IsSubSeq(a, b) ==
    IF Len(a) = 0 THEN TRUE
    ELSE IF Len(b) = 0 THEN FALSE
    ELSE IF a[1] = b[1] THEN IsSubSeq(Tail(a), Tail(b))
    ELSE IsSubSeq(a, Tail(b))

NumericRanges == Ranges \ {"ALL"}

\* C11: at any time and for any log, the series for ALL is the full series,
\* the series of a shorter numeric range is a sub-sequence of the series of a
\* longer one, which is a sub-sequence of the full series, and a point is kept
\* exactly when its timestamp is at or after now minus the days of the range.
C11_RangeMonotonic ==
    \A s \in Symbols :
        LET full == toSeriesFromLog(safeLog, s)
        IN  /\ filterByRange(full, "ALL", now) = full
            /\ \A r1, r2 \in NumericRanges :
                  RangeDays(r1) <= RangeDays(r2) =>
                      /\ IsSubSeq(filterByRange(full, r1, now), filterByRange(full, r2, now))
                      /\ IsSubSeq(filterByRange(full, r2, now), full)
            /\ \A r \in NumericRanges : \A i \in 1 .. Len(full) :
                  (\E j \in 1 .. Len(filterByRange(full, r, now)) :
                        filterByRange(full, r, now)[j] = full[i])
                      <=> full[i][1] >= now - RangeDays(r) * DAY

C11_Witness ==
    /\ range = "30D"
    /\ "AAPL" \in Held
    /\ LET full == toSeriesFromLog(safeLog, "AAPL")
       IN  /\ Len(seriesBySymbol["AAPL"]) > 0
           /\ Len(seriesBySymbol["AAPL"]) < Len(filterByRange(full, "90D", now))
           /\ Len(filterByRange(full, "365D", now)) < Len(full)
           /\ \E i \in 1 .. Len(full) : full[i][1] = now - 30 * DAY

\* the price of symbol s at exactly t in the filtered series, 0 when it has no point at t
PriceAt(s, t) ==
    LET ks == {k \in 1 .. Len(seriesBySymbol[s]) : seriesBySymbol[s][k][1] = t}
    IN  IF ks = {} THEN 0 ELSE seriesBySymbol[s][CHOOSE k \in ks : TRUE][2]

TimesOfHeld ==
    UNION {{seriesBySymbol[s][k][1] : k \in 1 .. Len(seriesBySymbol[s])} : s \in Held}

\* C12: the total series has one point per distinct timestamp of the held
\* symbols' filtered series, ascending, and its value at T is the sum over the
\* holdings of price x shares of those whose symbol has a point at exactly T;
\* AAPL with 10 shares and 160 logged on 2024-01-10 gives 1600 there.
C12_TotalSeries ==
    /\ Len(totalSeries) = Cardinality(TimesOfHeld)
    /\ \A j \in 1 .. Len(totalSeries) :
          /\ totalSeries[j][1] \in TimesOfHeld
          /\ j > 1 => totalSeries[j - 1][1] < totalSeries[j][1]
          /\ totalSeries[j][2] =
                SumTo([i \in 1 .. Len(safeItems) |->
                          PriceAt(safeItems[i].symbol, totalSeries[j][1]) * safeItems[i].shares],
                      Len(safeItems))
    /\ (/\ safeItems = <<Item(1, "AAPL", 10)>>
        /\ \E k \in 1 .. Len(seriesBySymbol["AAPL"]) :
              seriesBySymbol["AAPL"][k] = <<ParseMidnight(<<2024, 1, 10>>), 160>>)
          => \E j \in 1 .. Len(totalSeries) :
                totalSeries[j] = <<ParseMidnight(<<2024, 1, 10>>), 1600>>

C12_Witness ==
    range = "90D" /\ \E j \in 1 .. Len(totalSeries) : \E i1, i2 \in 1 .. Len(safeItems) :
        LET t  == totalSeries[j][1]
            s1 == safeItems[i1].symbol
            s2 == safeItems[i2].symbol
        IN  /\ s1 # s2
            /\ safeItems[i1].shares > 0 /\ safeItems[i2].shares > 0
            /\ \E k \in 1 .. Len(seriesBySymbol[s1]) : seriesBySymbol[s1][k][1] = t
            /\ ~\E k \in 1 .. Len(seriesBySymbol[s2]) : seriesBySymbol[s2][k][1] = t
            /\ \E k \in 1 .. Len(seriesBySymbol[s2]) :
                  seriesBySymbol[s2][k][1] < t /\ seriesBySymbol[s2][k][2] > 0
            /\ totalSeries[j][2] = PriceAt(s1, t) * safeItems[i1].shares

\* C13: a held symbol whose filtered series has at least 2 points and a nonzero
\* first value has a normalized series with the same timestamps, first value
\* exactly 100 and every value equal to value / first x 100; any other held
\* symbol has no normalized series.
C13_Normalized ==
    /\ \A i \in 1 .. Len(safeItems) :
          LET s   == safeItems[i].symbol
              arr == seriesBySymbol[s]
          IN  IF Len(arr) >= 2 /\ arr[1][2] # 0
              THEN \E n \in 1 .. Len(normalizedSeries) :
                      LET e == normalizedSeries[n]
                      IN  /\ e.name = s
                          /\ Len(e.data) = Len(arr)
                          /\ e.data[1][2] = <<100, 1>>
                          /\ \A k \in 1 .. Len(arr) :
                                /\ e.data[k][1] = arr[k][1]
                                /\ e.data[k][2][2] > 0
                                /\ e.data[k][2][1] * arr[1][2] = arr[k][2] * 100 * e.data[k][2][2]
              ELSE \A n \in 1 .. Len(normalizedSeries) : normalizedSeries[n].name # s
    /\ \A n \in 1 .. Len(normalizedSeries) : normalizedSeries[n].name \in Held

C13_Witness ==
    /\ \E n \in 1 .. Len(normalizedSeries) :
          \E k \in 1 .. Len(normalizedSeries[n].data) : normalizedSeries[n].data[k][2][2] # 1
    /\ \E s \in Held : Len(seriesBySymbol[s]) >= 2 /\ seriesBySymbol[s][1][2] = 0
    /\ range = "30D"

\* the chart of the mode is shown
Rendered == Chart \in ChartModes

\* C14 (as stated): on a loaded page a chart is rendered exactly when, in total
\* mode, the total series has 2 timestamps or more, or, in overlay or
\* normalized mode, some held symbol has 2 logged days or more in the range;
\* otherwise insufficient history is signalled, and no line has a single point.
C14_GateByLoggedDays ==
    ready =>
        /\ Rendered <=>
              IF chartMode = "total"
              THEN Cardinality({totalSeries[j][1] : j \in 1 .. Len(totalSeries)}) >= 2
              ELSE \E s \in Held : Len(seriesBySymbol[s]) >= 2
        /\ ~Rendered => Chart = "insufficient"
        /\ Rendered => \A n \in 1 .. Len(ChartLines) : Len(ChartLines[n]) >= 2

\* C14 (amended): as stated for the total and the overlay mode; in normalized
\* mode a chart is rendered exactly when some held symbol has 2 logged days or
\* more in the range and a nonzero price on the first of them.
C14_GateByDrawableSeries ==
    ready =>
        /\ Rendered <=>
              IF chartMode = "total"
              THEN Cardinality({totalSeries[j][1] : j \in 1 .. Len(totalSeries)}) >= 2
              ELSE IF chartMode = "overlay"
              THEN \E s \in Held : Len(seriesBySymbol[s]) >= 2
              ELSE \E s \in Held : Len(seriesBySymbol[s]) >= 2 /\ seriesBySymbol[s][1][2] # 0
        /\ ~Rendered => Chart = "insufficient"
        /\ Rendered => \A n \in 1 .. Len(ChartLines) : Len(ChartLines[n]) >= 2

C14_Witness ==
    /\ ready /\ chartMode = "normalized" /\ Chart = "insufficient"
    /\ \E s \in Held : Len(seriesBySymbol[s]) >= 2 /\ seriesBySymbol[s][1][2] = 0

IsLeap(y) == (y % 4 = 0 /\ y % 100 # 0) \/ y % 400 = 0

DaysInMonth(y, m) ==
    IF m = 2 THEN (IF IsLeap(y) THEN 29 ELSE 28)
    ELSE IF m \in {4, 6, 9, 11} THEN 30 ELSE 31

\* the months of a date key counted from year 0
MonthIndex(k) == k[1] * 12 + k[2] - 1

Min(a, b) == IF a <= b THEN a ELSE b

FreqSteps == {1, 3, 6, 12}

\* C19: addMonths(D, N) lies in the calendar month N months after the month of
\* D, on the day of D if that month has it and on its last day otherwise;
\* 2024-01-31 + 1 month = 2024-02-29 and 2023-01-31 + 1 month = 2023-02-28.
C19_AddMonthsClamps ==
    Len(calOut) >= 1 =>
        LET D == ymd(calDate)
            R == ymd(calOut[1])
        IN  /\ MonthIndex(R) = MonthIndex(D) + calMonths
            /\ R[3] = Min(D[3], DaysInMonth(R[1], R[2]))
            /\ (D = <<2024, 1, 31>> /\ calMonths = 1) => R = <<2024, 2, 29>>
            /\ (D = <<2023, 1, 31>> /\ calMonths = 1) => R = <<2023, 2, 28>>

C19_Witness ==
    /\ Len(calOut) >= 1
    /\ ymd(calDate) = <<2024, 1, 31>> /\ calMonths = 1
    /\ ymd(calOut[1]) = <<2024, 2, 29>>

\* the forward step put the date on a day other than the day of D
Clamped == getDate(calOut[1]) # getDate(calDate)

ThisMonth == <<dayKey(now)[1], dayKey(now)[2]>>

MonthLabelsOK(b) ==
    /\ Len(b) = 12
    /\ \A i \in 1 .. Len(b) : b[i].k[2] \in 1 .. 12
    /\ \A i, j \in 1 .. Len(b) : i # j => b[i].k # b[j].k
    /\ \A i \in 1 .. Len(b) - 1 : MonthIndex(b[i + 1].k) = MonthIndex(b[i].k) + 1

\* C15: on a loaded dividends page the actual and the forecast chart each have
\* exactly 12 buckets, labelled by 12 distinct consecutive months in ascending
\* order, the actual ones ending and the forecast ones starting with the
\* current month, and every bucket is 0 when there is nothing to count.
C15_TwelveMonthBuckets ==
    divReady =>
        /\ MonthLabelsOK(actualMonthly)
        /\ MonthLabelsOK(forecastMonthly)
        /\ actualMonthly[12].k = ThisMonth
        /\ forecastMonthly[1].k = ThisMonth
        /\ events.v = <<>> => \A i \in 1 .. 12 : actualMonthly[i].v = 0
        /\ settings.v = <<>> => \A i \in 1 .. 12 : forecastMonthly[i].v = 0

C15_Witness ==
    /\ divReady
    /\ ThisMonth = <<2024, 3>>
    /\ actualMonthly[1].k = <<2023, 4>>
    /\ forecastMonthly[12].k = <<2025, 2>>
    /\ events.v = <<>> /\ Len(settings.v) > 0

\* the amounts of the recorded events dated in the month <<year, month>>, in units
AmountIn(k) ==
    SumTo([i \in 1 .. Len(events.v) |->
              IF <<events.v[i].date[1], events.v[i].date[2]>> = k THEN events.v[i].amount ELSE 0],
          Len(events.v))

\* C16 (as stated): each actual bucket is the sum of the amounts of the events
\* dated in its month, an event outside the 12 months adds to no bucket, and
\* the 12-month total is the sum of the 12 bucket values.
C16_BucketIsExactSum ==
    divReady =>
        LET am == actualMonthly
        IN  /\ \A i \in 1 .. Len(am) : am[i].v * UnitsPerCent = AmountIn(am[i].k)
            /\ totalActual12m = SumTo([i \in 1 .. Len(am) |-> am[i].v], Len(am))

\* C16 (amended): each actual bucket is the sum of the amounts of the events
\* dated in its month, rounded to the nearest cent; an event outside the 12
\* months adds to no bucket; the 12-month total is the sum of the 12 rounded
\* bucket values.
C16_BucketIsRoundedSum ==
    divReady =>
        LET am == actualMonthly
        IN  /\ \A i \in 1 .. Len(am) :
                  LET diff == AmountIn(am[i].k) - am[i].v * UnitsPerCent
                  IN  2 * diff < UnitsPerCent /\ 2 * diff >= 0 - UnitsPerCent
            /\ totalActual12m = SumTo([i \in 1 .. Len(am) |-> am[i].v], Len(am))
            /\ (\A i \in 1 .. Len(events.v) : events.v[i].amount % UnitsPerCent = 0)
                  => totalActual12m * UnitsPerCent
                        = SumTo([i \in 1 .. Len(am) |-> AmountIn(am[i].k)], Len(am))

C16_Witness ==
    /\ divReady
    /\ LET am == actualMonthly
       IN  \E i \in 1 .. 12 : am[i].k = <<2024, 3>> /\ am[i].v = 7000
    /\ \E i \in 1 .. Len(events.v) : events.v[i].date = <<2024, 3, 1>> /\ events.v[i].amount = Cents(2000)

WindowStart == NewDate(ThisMonth[1], ThisMonth[2] - 1, 1)
WindowEnd == NewDate(ThisMonth[1] + 1, ThisMonth[2] - 1, 1)

\* The occurrences of a setting: nextPayDate and the dates reached from it by
\* successive frequency steps, up to the first one at or after the window end
RECURSIVE OccSeq(_, _)
OccSeq(d, step) == IF d >= WindowEnd THEN <<d>> ELSE <<d>> \o OccSeq(addMonths(d, step), step)

Occurrences(st) == OccSeq(parseYmd(st.nextPayDate), freqToMonths(st.frequency))

\* the occurrences in occ the forecast emits: from the earliest one at or after
\* the window start up to the window end
EmittedOf(occ) == {occ[k] : k \in {k \in 1 .. Len(occ) : occ[k] >= WindowStart /\ occ[k] < WindowEnd}}

Emitted(st) == EmittedOf(Occurrences(st))

PerPayment(st) == SharesOf(portfolio.v, st.symbol) * (st.annualPerShare \div freqCountPerYear(st.frequency))

Stale(st) == parseYmd(st.nextPayDate) < WindowStart

\* the occurrences of every setting, and the months of the emitted ones
RECURSIVE OccAll(_, _)
OccAll(setts, j) ==
    IF j > Len(setts) THEN <<>> ELSE <<Occurrences(setts[j].v)>> \o OccAll(setts, j + 1)

RECURSIVE PaidAll(_, _)
PaidAll(occ, j) ==
    IF j > Len(occ) THEN <<>>
    ELSE <<{<<ymd(d)[1], ymd(d)[2]>> : d \in EmittedOf(occ[j])}>> \o PaidAll(occ, j + 1)

\* C17: a setting whose nextPayDate precedes the window start pays nothing for
\* the occurrences before the window start; every forecast bucket holds the
\* payments of the occurrences of its month from the earliest occurrence at or
\* after the window start on (rounded to cents), and that occurrence is paid.
C17_StaleSettingRollsForward ==
    divReady =>
        LET fm    == forecastMonthly
            n     == Len(settings.v)
            occ   == OccAll(settings.v, 1)
            paid  == PaidAll(occ, 1)
            amt   == [j \in 1 .. n |-> PerPayment(settings.v[j].v)]
        IN  /\ \A i \in 1 .. Len(fm) :
                  fm[i].v =
                      toFixed2(SumTo([j \in 1 .. n |-> IF fm[i].k \in paid[j] THEN amt[j] ELSE 0], n))
            /\ \A j \in 1 .. n :
                  /\ occ[j][Len(occ[j])] >= WindowEnd
                  /\ \A k1, k2 \in 1 .. Len(occ[j]) :
                        (k1 < k2 /\ occ[j][k1] >= WindowStart /\ occ[j][k2] < WindowEnd)
                            => ymd(occ[j][k1])[2] # ymd(occ[j][k2])[2]
                  /\ (Stale(settings.v[j].v) /\ amt[j] > 0) =>
                        \A k \in 2 .. Len(occ[j]) :
                            (occ[j][k] >= WindowStart /\ occ[j][k] < WindowEnd /\ occ[j][k - 1] < WindowStart)
                                => \E i \in 1 .. Len(fm) :
                                      /\ fm[i].k = <<ymd(occ[j][k])[1], ymd(occ[j][k])[2]>>
                                      /\ fm[i].v >= toFixed2(amt[j])

C17_Witness ==
    /\ divReady
    /\ \E j \in 1 .. Len(settings.v) :
          LET st == settings.v[j].v
          IN  /\ Stale(st) /\ PerPayment(st) > 0
              /\ Occurrences(st)[3] < WindowStart
              /\ Emitted(st) # {}
    /\ totalForecast12m > 0

\* the setting of C18: 12.00 a year, monthly, 10 shares, nextPayDate in the window
IsC18Setting(st) ==
    /\ st.annualPerShare = Cents(1200) /\ st.frequency = "Monthly"
    /\ SharesOf(portfolio.v, st.symbol) = 10
    /\ parseYmd(st.nextPayDate) >= WindowStart /\ parseYmd(st.nextPayDate) < WindowEnd

\* C18: when such a setting is the only one that pays, every bucket from the
\* month of nextPayDate on holds 10.00 and the others 0, and if the 12 monthly
\* occurrences all lie in the window the 12 buckets sum to exactly 120.00.
C18_MonthlyForecastTotal ==
    divReady =>
        \A j \in 1 .. Len(settings.v) :
            (/\ IsC18Setting(settings.v[j].v)
             /\ \A j2 \in 1 .. Len(settings.v) : j2 # j => PerPayment(settings.v[j2].v) = 0)
                => /\ \A i \in 1 .. 12 :
                        forecastMonthly[i].v =
                            IF MonthIndex(forecastMonthly[i].k) >= MonthIndex(settings.v[j].v.nextPayDate)
                            THEN 1000 ELSE 0
                   /\ MonthIndex(settings.v[j].v.nextPayDate) = MonthIndex(ThisMonth)
                         => totalForecast12m = 12000

C18_Witness ==
    /\ divReady
    /\ \E j \in 1 .. Len(settings.v) :
          /\ IsC18Setting(settings.v[j].v)
          /\ settings.v[j].v.nextPayDate[3] > 1
    /\ totalForecast12m = 12000

\* the symbol is not held, or held with zero shares only
Unheld(sym) == \A i \in 1 .. Len(portfolio.v) : portfolio.v[i].symbol = sym => portfolio.v[i].shares = 0

\* the forecast is that of the settings of the held symbols alone
UnheldPaysNothing ==
    LET others == SelectSeq(settings.v, LAMBDA e : ~Unheld(e.k))
        fm     == forecastMonthly
    IN  /\ fm = ForecastMonthlyOf(others, portfolio.v, now)
        /\ others = <<>> => totalForecast12m = 0 /\ \A i \in 1 .. Len(fm) : fm[i].v = 0

\* C21: a setting of a symbol that is not held, or held with zero shares, adds
\* nothing to any forecast bucket nor to the forecast total (the forecast is
\* that of the other settings alone), and the page that loads a portfolio
\* without the symbol keeps and stores again every event and setting it loaded.
C21_UnheldSettingPaysNothing ==
    /\ [](divReady => UnheldPaysNothing)
    /\ [][(~divReady /\ divReady') =>
            /\ events'.v = loadJson(divStore.events, <<>>)
            /\ settings'.v = loadJson(divStore.settings, <<>>)
            /\ divStore' = [events |-> Json(events'.v), settings |-> Json(settings'.v)]
            /\ store' = store]_vars

C21_Witness ==
    /\ divReady
    /\ totalForecast12m > 0
    /\ \E j \in 1 .. Len(settings.v) :
          /\ Unheld(settings.v[j].k)
          /\ settings.v[j].v.annualPerShare > 0
          /\ \E i \in 1 .. Len(portfolio.v) : portfolio.v[i].symbol = settings.v[j].k
          /\ Emitted(settings.v[j].v) # {}
    /\ \E i \in 1 .. Len(events.v) : Unheld(events.v[i].symbol)

\* the payments a year of a frequency, and its step in months
PaymentsPerYear(freq) ==
    IF freq = "Monthly" THEN 12 ELSE IF freq = "Quarterly" THEN 4 ELSE IF freq = "Semi-Annual" THEN 2 ELSE 1

StepMonths(freq) ==
    IF freq = "Monthly" THEN 1 ELSE IF freq = "Quarterly" THEN 3 ELSE IF freq = "Semi-Annual" THEN 6 ELSE 12

\* the settings that pay: those of a symbol held with nonzero shares
Paying(j) == SharesOf(portfolio.v, settings.v[j].k) # 0

\* the count and the buckets of the payments the forecast emits for setting j:
\* a full year of payments, each in a bucket of its own, when nextPayDate lies
\* before the window start or less than one step after it; fewer for a later
\* nextPayDate inside the window; never more
PaymentCountOK(j, fm) ==
    LET st   == settings.v[j].v
        adds == SettingAdds(st, SharesOf(portfolio.v, st.symbol), WindowStart)
        npd  == parseYmd(st.nextPayDate)
    IN  /\ Len(adds) <= PaymentsPerYear(st.frequency)
        /\ \A a, b \in 1 .. Len(adds) : a # b => adds[a].k # adds[b].k
        /\ \A a \in 1 .. Len(adds) : \E i \in 1 .. Len(fm) : fm[i].k = adds[a].k /\ fm[i].v > 0
        /\ npd < NewDate(ThisMonth[1], ThisMonth[2] - 1 + StepMonths(st.frequency), 1)
              => Len(adds) = PaymentsPerYear(st.frequency)
        /\ (npd >= NewDate(ThisMonth[1], ThisMonth[2] - 1 + StepMonths(st.frequency), 1) /\ npd < WindowEnd)
              => Len(adds) < PaymentsPerYear(st.frequency) /\ Len(adds) >= 1

FullYear(j) ==
    /\ Paying(j)
    /\ \A j2 \in 1 .. Len(settings.v) : j2 # j => ~Paying(j2)
    /\ parseYmd(settings.v[j].v.nextPayDate)
          < NewDate(ThisMonth[1], ThisMonth[2] - 1 + StepMonths(settings.v[j].v.frequency), 1)

\* C29 (as stated): ... and the forecast total of a symbol that pays a full
\* year equals shares x annualPerShare.
C29_FullYearTotalIsExact ==
    divReady =>
        LET fm == forecastMonthly
        IN  \A j \in 1 .. Len(settings.v) :
                Paying(j) =>
                    /\ PaymentCountOK(j, fm)
                    /\ FullYear(j) =>
                          totalForecast12m * UnitsPerCent
                              = SharesOf(portfolio.v, settings.v[j].k) * settings.v[j].v.annualPerShare

\* C29 (amended): the count and the buckets of the payments are as stated; the
\* forecast total of a symbol that pays a full year is the sum of its payments
\* each rounded to cents, which is shares x annualPerShare when a payment is a
\* whole number of cents and differs from it by less than half a cent a
\* payment otherwise.
C29_FullYearTotalIsRounded ==
    divReady =>
        LET fm == forecastMonthly
        IN  \A j \in 1 .. Len(settings.v) :
                Paying(j) =>
                    /\ PaymentCountOK(j, fm)
                    /\ FullYear(j) =>
                          LET n    == PaymentsPerYear(settings.v[j].v.frequency)
                              year == SharesOf(portfolio.v, settings.v[j].k) * settings.v[j].v.annualPerShare
                              diff == totalForecast12m * UnitsPerCent - year
                          IN  /\ totalForecast12m = n * toFixed2(year \div n)
                              /\ 2 * diff <= n * UnitsPerCent /\ 2 * diff > 0 - n * UnitsPerCent
                              /\ (year \div n) % UnitsPerCent = 0 => diff = 0

C29_Witness ==
    /\ divReady
    /\ \E j \in 1 .. Len(settings.v) :
          /\ FullYear(j)
          /\ settings.v[j].v.frequency = "Monthly"
          /\ Stale(settings.v[j].v)
          /\ totalForecast12m = 996
          /\ SharesOf(portfolio.v, settings.v[j].k) * settings.v[j].v.annualPerShare = Cents(1000)

\* the least number of days of the months of the first n pay dates
RECURSIVE ShortestMonth(_, _)
ShortestMonth(occ, n) ==
    IF n = 0 THEN 31
    ELSE Min(DaysInMonth(ymd(occ[n])[1], ymd(occ[n])[2]), ShortestMonth(occ, n - 1))

\* C30 (as stated): the pay date reached after k steps is nextPayDate advanced
\* by k x step months in one single call.
C30_StepsEqualSingleStep ==
    \A k \in 1 .. Len(calOut) : calOut[k] = addMonths(calDate, (k - 1) * calMonths)

\* C30 (amended): the pay date reached after k steps lies in the same calendar
\* month as nextPayDate advanced by k x step months in one call, on the day of
\* nextPayDate cut down to the shortest month among the pay dates so far: a
\* day clamped in a short month is kept in every later month (Jan 31, Feb 29,
\* Mar 29, ...), and the two dates are equal exactly when no month so far was
\* shorter than the day of the single-call date.
C30_StepsKeepClampedDay ==
    \A k \in 1 .. Len(calOut) :
        LET one == ymd(addMonths(calDate, (k - 1) * calMonths))
            occ == ymd(calOut[k])
        IN  /\ occ[1] = one[1] /\ occ[2] = one[2]
            /\ MonthIndex(occ) = MonthIndex(ymd(calDate)) + (k - 1) * calMonths
            /\ occ[3] = Min(ymd(calDate)[3], ShortestMonth(calOut, k))
            /\ occ[3] <= one[3]
            /\ k > 1 => occ[3] <= ymd(calOut[k - 1])[3]

C30_Witness ==
    /\ Len(calOut) = 3 /\ calMonths = 1
    /\ ymd(calDate) = <<2024, 1, 31>>
    /\ ymd(calOut[2]) = <<2024, 2, 29>>
    /\ ymd(calOut[3]) = <<2024, 3, 29>>
    /\ ymd(addMonths(calDate, 2)) = <<2024, 3, 31>>

\* the holdings of the symbol s, by their index
HoldingsOf(s) == {i \in 1 .. Len(safeItems) : safeItems[i].symbol = s}

\* two holdings have the same symbol
HasDuplicate == \E s \in Symbols : Cardinality(HoldingsOf(s)) >= 2

\* the shares of all holdings of the symbol s together
SharesSum(s) ==
    SumTo([i \in 1 .. Len(safeItems) |-> IF safeItems[i].symbol = s THEN safeItems[i].shares ELSE 0],
          Len(safeItems))

RECURSIVE SumOver(_, _)
SumOver(f, S) ==
    IF S = {} THEN 0 ELSE LET x == CHOOSE x \in S : TRUE IN f[x] + SumOver(f, S \ {x})

\* C25 (as stated): with two holdings of one symbol, the total at a timestamp
\* multiplies the price of each symbol by the shares of one holding only.
C25_DuplicateCountsOnce ==
    HasDuplicate =>
        \A j \in 1 .. Len(totalSeries) :
            \E pick \in [Held -> 1 .. Len(safeItems)] :
                /\ \A s \in Held : pick[s] \in HoldingsOf(s)
                /\ totalSeries[j][2] =
                      SumOver([s \in Held |-> PriceAt(s, totalSeries[j][1]) * safeItems[pick[s]].shares], Held)

\* C25 (amended): with two holdings of one symbol, the total at a timestamp
\* multiplies the price of the symbol by the shares of each of its holdings in
\* turn, that is by the sum of their shares; the series of prices is one per
\* symbol.
C25_DuplicateCountsEach ==
    HasDuplicate =>
        \A j \in 1 .. Len(totalSeries) :
            totalSeries[j][2] =
                SumOver([s \in Held |-> PriceAt(s, totalSeries[j][1]) * SharesSum(s)], Held)

C25_Witness ==
    /\ range = "30D"
    /\ safeItems = <<Item(2, "AAPL", 2), Item(1, "AAPL", 1)>>
    /\ \E j \in 1 .. Len(totalSeries) :
          /\ PriceAt("AAPL", totalSeries[j][1]) = 5
          /\ totalSeries[j][2] = 15

\* C27 (as stated): loadingPrices is true whenever a refresh cycle is still in
\* flight, also while two cycles overlap.
C27_LoadingWhileInFlight == cycles # <<>> => loadingPrices

\* the last index at which the symbol s is fetched by the cycle c
LastIndexOf(c, s) == CHOOSE j \in 1 .. Len(c.syms) : c.syms[j] = s /\ \A j2 \in j + 1 .. Len(c.syms) : c.syms[j2] # s

\* the entries of the log of symbol s for the days other than k
OtherDays(log, s, k) == SelectSeq(log[s], LAMBDA e : e.k # k)

\* C28 (as stated): when the second of two overlapping refresh cycles completes
\* right after the first, the price log holds an entry for today for every held
\* symbol of which a fetch returned a price in the first cycle (whose results
\* are the quote cache at that moment) or in the second.
C28_EverySucceededFetchLogged ==
    [][(Len(cycles) = 1 /\ Completes(1) /\ ev.op = "done") =>
          LET c == cycles[1]
          IN  \A s \in Held :
                 (\/ quotes[s].c # NoPrice
                  \/ \E j \in 1 .. Len(c.syms) : c.syms[j] = s /\ Outcome(c, j).c # NoPrice)
                    => HasKey(priceLog'.v[s], dayKey(now))]_vars

\* C28 (amended): overlapping refresh cycles are neither coalesced nor cancelled, and
\* their log writes do not lose each other.  A call that starts while another
\* is in flight joins it and leaves it as it is; a cycle that completes leaves
\* the others in flight with what they fetched so far; it puts the price of
\* every symbol it ends with a price for into the log under the day of its
\* completion, keeps the entry that day already has for every other symbol (the
\* one an earlier cycle wrote), keeps every entry of another day, and replaces
\* the quote cache by its own results.
C28_OverlapMergesLog ==
    [][/\ Len(cycles') > Len(cycles) =>
             /\ Len(cycles') = Len(cycles) + 1
             /\ SubSeq(cycles', 1, Len(cycles)) = cycles
       /\ \A ci \in 1 .. Len(cycles) :
             Completes(ci) =>
                LET c == cycles[ci]
                    k == dayKey(now)
                IN  /\ Len(cycles') = Len(cycles) - 1
                    /\ \A j \in 1 .. Len(cycles') : cycles'[j] = cycles[IF j < ci THEN j ELSE j + 1]
                    /\ ~priceLog'.null
                    /\ \A s \in Symbols :
                          /\ OtherDays(priceLog'.v, s, k) = OtherDays(priceLog.v, s, k)
                          /\ Cardinality({i \in 1 .. Len(priceLog'.v[s]) : priceLog'.v[s][i].k = k}) <= 1
                          /\ IF s \in Priced(c)
                             THEN /\ HasKey(priceLog'.v[s], k)
                                  /\ Get(priceLog'.v[s], k) = Outcome(c, LastIndexOf(c, s)).c
                             ELSE /\ HasKey(priceLog'.v[s], k) = HasKey(priceLog.v[s], k)
                                  /\ HasKey(priceLog.v[s], k) => Get(priceLog'.v[s], k) = Get(priceLog.v[s], k)
                          /\ quotes'[s] = IF s \in Range(c.syms) THEN Outcome(c, LastIndexOf(c, s)) ELSE Absent
                    /\ quotesTs' = now
                    /\ store'.quotes = Json(quotes') /\ store'.ts = Json(now) /\ store'.log = Json(priceLog'.v)
                    /\ store'.portfolio = store.portfolio]_vars

\* both load-time cycles have completed, the second one over the entry of the first
C28_Witness ==
    /\ ops = 0 /\ cycles = <<>> /\ ev.op = "done" /\ ev.force = FALSE
    /\ autoDay = dayKey(now)
    /\ ev.had /\ ev.r = NullQuote
    /\ \E s \in Held :
          /\ quotes[s] = NullQuote
          /\ HasKey(safeLog[s], dayKey(now))
          /\ HasKey(safeLog[s], DayBefore)

\* what the fields of the forms hold when the code rejects them
BadShares(sh) == sh \in NonFinite \/ sh <= 0
BadEdit(v) == v \in NonFinite \/ v < 0
BadAmount(a) == a \in NonFinite \/ a <= 0

\* C23: invalid user input changes nothing.  A step that is add() with an empty
\* symbol or with shares that are no finite number above 0, the shares edit
\* with a value that is not finite or is negative, or addEvent() with an empty
\* symbol, an empty date or an amount that is no finite number above 0, leaves
\* the holdings, the dividend events and every stored blob as they were.
C23_InvalidInputChangesNothing ==
    [][/\ \A s \in Symbols \cup {""}, sh \in ShareInputs \cup NonFinite :
             (add(nextId, s, sh) /\ (s = "" \/ BadShares(sh)))
                => items' = items /\ store' = store /\ divStore' = divStore /\ events' = events
       /\ \A id \in 1 .. nextId, v \in EditInputs \cup NonFinite :
             (editShares(id, v) /\ BadEdit(v))
                => items' = items /\ store' = store /\ divStore' = divStore /\ events' = events
       /\ \A s \in SymbolOptions, date \in EventDates, a \in EventAmounts \cup NonFinite :
             (addEvent(s, date, a) /\ (s = "" \/ date = NoDate \/ BadAmount(a)))
                => /\ events' = events /\ settings' = settings /\ divStore' = divStore
                   /\ items' = items /\ store' = store]_vars

\* add() has run on the loaded page and has added no holding
C23_Witness ==
    /\ ev.op = "add" /\ ops = 1 /\ nextId = FirstId
    /\ itemsLoaded /\ divReady
    /\ store.portfolio = Json(safeItems)
    /\ Len(safeItems) = 1 /\ Len(events.v) = 1

\* what loading a blob is to give: the stored value, the default when there is none or it is malformed
StoredOr(b, d) == IF b.tag = "json" THEN b.val ELSE d

\* C22 (as stated): for each of the six blobs, a malformed stored string loads
\* as the collection's default, no error escapes (the page is never taken down
\* and every load effect completes), and every collection is loaded with its
\* own stored value whatever the other blobs hold.
C22_MalformedLoadsAsDefault ==
    /\ [](effectsPending # "crashed")
    /\ [][/\ (items.null /\ ~items'.null) => items'.v = StoredOr(store.portfolio, <<>>)
          /\ (effectsPending = "load quotes" /\ effectsPending' # effectsPending) =>
                /\ quotes' = StoredOr(store.quotes, NoQuotes)
                /\ quotesTs' = StoredOr(store.ts, 0)
          /\ (priceLog.null /\ ~priceLog'.null) => priceLog'.v = StoredOr(store.log, EmptyLog)
          /\ (~divReady /\ divReady') =>
                /\ events'.v = StoredOr(divStore.events, <<>>)
                /\ settings'.v = StoredOr(divStore.settings, <<>>)]_vars

\* the empty default of each blob
DefaultOf(k) ==
    IF k = "quotes" THEN NoQuotes ELSE IF k = "ts" THEN 0 ELSE IF k = "log" THEN EmptyLog ELSE <<>>

\* the step replaces a stored, non-empty collection by its empty default
Wipes(old, new, k) ==
    /\ old[k].tag = "json" /\ old[k].val # DefaultOf(k)
    /\ new[k] = Json(DefaultOf(k))

\* C26 (as stated): while a session starts, no stored non-empty collection is
\* replaced, even for a moment, by the empty default.
C26_NoStoredCollectionWiped ==
    [][/\ \A k \in {"portfolio", "quotes", "ts", "log"} : ~Wipes(store, store', k)
       /\ \A k \in {"events", "settings"} : ~Wipes(divStore, divStore', k)]_vars

\* the holdings of a stored portfolio blob
StoredItems == Range(LoadItems(store.portfolio))

\* C24: with two tabs on one store, a step changes a stored blob only by
\* writing the whole in-memory collection of the same name of the tab that
\* acts (the second tab when its state changes, the first otherwise), and
\* never by anything it does to another collection; the dividend blobs are
\* not touched by the portfolio page.  A blob is replaced, not merged, so a
\* holding one tab persisted can be gone after the other tab's later write
\* (the witness).
C24_TabsWriteWholeBlobs ==
    [][/\ store'.portfolio # store.portfolio =>
             store'.portfolio = Json(IF tab2' # tab2 THEN tab2'.items.v ELSE items'.v)
       /\ store'.quotes # store.quotes =>
             store'.quotes = Json(IF tab2' # tab2 THEN tab2'.quotes ELSE quotes')
       /\ store'.ts # store.ts =>
             store'.ts = Json(IF tab2' # tab2 THEN tab2'.quotesTs ELSE quotesTs')
       /\ store'.log # store.log =>
             store'.log = Json(IF tab2' # tab2 THEN tab2'.priceLog.v ELSE priceLog'.v)
       /\ (items' = items /\ tab2'.items = tab2.items) => store'.portfolio = store.portfolio
       /\ ((~items.null /\ items' # items) \/ (~tab2.items.null /\ tab2'.items # tab2.items)) =>
             store'.quotes = store.quotes /\ store'.ts = store.ts /\ store'.log = store.log
       /\ divStore' = divStore]_vars

\* the first tab added a holding and saved it, the second tab, loaded before
\* that, then saved its own holdings: the holding of the first tab is no
\* longer in the store
C24_Witness ==
    /\ itemsLoaded /\ ~tab2.items.null
    /\ tab2.n = 1
    /\ store.portfolio = Json(tab2.items.v)
    /\ \E i \in 1 .. Len(safeItems) :
          /\ safeItems[i].id = FirstId
          /\ safeItems[i] \notin StoredItems
    /\ \E i \in 1 .. Len(tab2.items.v) : tab2.items.v[i].id = Tab2FirstId

====
